---- MODULE Spec2Model ----
(***************************************************************************)
(* Model of the retrieval-augmented ingestion pipeline of                  *)
(* github-cursor-rules-agent: the file-processor tool (chunk, embed,       *)
(* upsert), the vector-query tool and the five-stage workflow.             *)
(*                                                                         *)
(* Every await of an async handler is one step of the handler's program    *)
(* counter.  Calls into libraries and services outside the repository      *)
(* (fs, MDocument.chunk, embedMany/embed, LibSQLVector, agent.generate)    *)
(* are environment steps: their outcome is a nondeterministic choice among *)
(* the results and the errors those calls can produce.                     *)
(***************************************************************************)
EXTENDS Integers, Sequences, FiniteSets, TLC

\* ------------------------------------------------------------------ bounds

\* The number of chunks of the largest file.
MaxChunks == 250

\* Largest number of fileProcessorTool calls the agent issues in one run.
MaxRuns == 2

\* ------------------------------------------------------- program constants

\* const batchSize = 100 (the provider's request limit)
batchSize == 100

\* dimension: 768 passed to createIndex
IndexDimension == 768

\* ------------------------------------------------------------ JS helpers

Min(a, b) == IF a <= b THEN a ELSE b

\* Array.prototype.slice(from, to) on a 0-based array held as a 1-based
\* sequence: the elements at 0-based positions from .. Min(to, length) - 1.
Slice(arr, from, to) ==
    IF from >= Min(to, Len(arr)) THEN << >>
    ELSE SubSeq(arr, from + 1, Min(to, Len(arr)))

\* Array.prototype.map
Map(f(_), arr) == [k \in 1..Len(arr) |-> f(arr[k])]

\* Math.round(a / b) for a >= 0, b > 0
RoundDiv(a, b) == (2 * a + b) \div (2 * b)

RECURSIVE SumLen(_, _, _)
\* chunks.reduce((sum, chunk) => sum + chunk.text.length, 0) over the
\* positions lo..hi (summed by halves: addition is associative)
SumLen(arr, lo, hi) ==
    IF lo > hi THEN 0
    ELSE IF lo = hi THEN arr[lo].text.length
    ELSE LET mid == (lo + hi) \div 2
         IN  SumLen(arr, lo, mid) + SumLen(arr, mid + 1, hi)

\* ----------------------------------------------------------- environment

\* The files the tool may be pointed at.  exists: fs.access succeeds;
\* readable: fs.readFile succeeds; content: "" for an empty file.
Paths == {"gone.ts", "locked.md", "empty.md", "blank.txt", "README.md", "main.ts"}

FileSystem ==
    [p \in Paths |->
        CASE p = "gone.ts"   -> [exists |-> FALSE, readable |-> FALSE, content |-> "", ext |-> ".ts"]
          [] p = "locked.md" -> [exists |-> TRUE, readable |-> FALSE, content |-> "", ext |-> ".md"]
          [] p = "empty.md"  -> [exists |-> TRUE, readable |-> TRUE, content |-> "", ext |-> ".md"]
          [] p = "blank.txt" -> [exists |-> TRUE, readable |-> TRUE, content |-> "white space", ext |-> ".txt"]
          [] p = "README.md" -> [exists |-> TRUE, readable |-> TRUE, content |-> "readme text", ext |-> ".MD"]
          [] OTHER           -> [exists |-> TRUE, readable |-> TRUE, content |-> "source text", ext |-> ".ts"]]

\* path.extname(filePath)
ExtName(p) == FileSystem[p].ext

\* String.prototype.toLowerCase on the extensions that occur
ToLowerCase(e) ==
    CASE e = ".MD" -> ".md"
      [] e = ".HTML" -> ".html"
      [] e = ".JSON" -> ".json"
      [] OTHER -> e

\* The strategies a caller passes (a subset of the schema's enum).
Strategies == {"recursive", "markdown"}

\* (chunkSize, overlap) pairs a caller passes: the schema's defaults, and
\* an overlap that is not below the chunk size (the schema takes any numbers).
Sizings == {[chunkSize |-> 512, overlap |-> 50], [chunkSize |-> 50, overlap |-> 50]}

\* Index names a caller passes; a name with a hyphen is rejected by the store.
IndexNames == {"hono_index", "hono-index"}

ValidIndexName(name) == name # "hono-index"

\* Every index name of the model: those above and one nothing is stored under.
AllIndexNames == IndexNames \cup {"docs"}

\* The number of chunks MDocument.chunk returns for a file under a strategy:
\* none for a file of white space, one, exactly one batch, two batches and
\* one chunk, and the largest file.
ChunkCount(p, strategy) ==
    CASE p = "blank.txt" -> 0
      [] p = "main.ts" -> IF strategy = "markdown" THEN 1 ELSE batchSize
      [] p = "README.md" ->
            IF strategy = "markdown" THEN Min(2 * batchSize + 1, MaxChunks)
            ELSE MaxChunks
      [] OTHER -> 0

\* Provider and store errors (the .message of the thrown error).
EmbedErrors == {"API key not valid"}
UpsertErrors == {"database is locked"}
ChunkErrors == {"chunking failed"}
ReadErrors == {"EACCES"}

\* The embedding the provider returns for a text.
Embedding(text) == [vectorOf |-> text]

\* The i-th chunk MDocument.chunk returns for a document (i from 1).
ChunkOf(content, i) ==
    [text |-> [doc |-> content, ord |-> i, length |-> 1 + (i % 7)]]

Null == [null |-> TRUE]

VARIABLES
    store,          \* LibSQLVector database: index name -> [dimension, records]
    \* fileProcessorTool.execute
    fpPc,           \* position of execute
    fpCtx,          \* its context (the validated input)
    fileType,       \* let fileType
    chunks,         \* const chunks
    allEmbeddings,  \* let allEmbeddings
    metadata,       \* const metadata
    loopI,          \* let i of the current batch loop
    fpResult,       \* the value execute returned (Null while running)
    fpCalls,        \* history: the library calls this execute has issued
    fpRuns,         \* history: number of execute calls started in the run
    runEmbedCalls,  \* history: number of embedMany calls issued in the run
    firstEmbedFailed, \* history: the first embedMany call of the run failed
    embedFailureClasses, \* history: classes of the results returned after a failed embedMany
    ingested,       \* history: per execute that upserted, the records it has stored
    \* vectorQueryTool.execute
    vqPc,           \* position of execute
    vqCtx,          \* its context
    vqEmbedding,    \* const embedding
    vqResult,       \* the value execute returned (Null while running)
    vqCalls,        \* history: the library calls this execute has issued
    vqRuns,         \* history: number of execute calls started
    vqEmbedFailureClasses, \* history: classes of the results returned after a failed embed
    \* cursorRulesWorkflow
    wfPc,           \* the stage to run next, or "idle", "completed", "failed"
    wfTrigger,      \* the trigger data of the run
    wfResults,      \* stage id -> the output the stage returned (Null: none)
    wfExecuted,     \* history: the stages whose execute was invoked, in order
    wfDirs,         \* the directories that exist under the working directory
    wfGit,          \* history: the git commands the clone tool has issued
    cloneRuns,      \* history: the calls of cloneRepositoryTool.execute, in order
    \* saveCheatsheetTool.execute
    csFiles,        \* the output files: path -> content (None: no such file)
    csCalls,        \* history: the calls of execute, in order
    \* generateSectionedCheatsheet
    genPc,          \* position: "idle", "generate", "save" or "done"
    genOptions,     \* const options
    genI,           \* let i of the section loop
    genResults,     \* const results
    genLog,         \* history: the section attempts, in order
    \* readmeAnalyzerTool.execute
    raRepo,         \* the repository: README variant -> what is at that name
    raPc,           \* position: "idle", "stat", "readFile", "extract" or "done"
    raIdx,          \* the variant the for-of loop is at (from 1)
    readmeContent,  \* let readmeContent
    readmePath,     \* let readmePath
    raResult,       \* the value execute returned (Null while running)
    raCalls         \* history: the file system calls execute has issued

fpVars == <<fpPc, fpCtx, fileType, chunks, allEmbeddings, metadata, loopI,
            fpResult, fpCalls, fpRuns, runEmbedCalls, firstEmbedFailed,
            embedFailureClasses, ingested>>

vqVars == <<vqPc, vqCtx, vqEmbedding, vqResult, vqCalls, vqRuns,
            vqEmbedFailureClasses>>

wfVars == <<wfPc, wfTrigger, wfResults, wfExecuted, wfDirs, wfGit, cloneRuns>>

csVars == <<csFiles, csCalls>>

\* The variables of the tools the agent calls beside ingestion and query.
genVars == <<genPc, genOptions, genI, genResults, genLog>>

raVars == <<raRepo, raPc, raIdx, readmeContent, readmePath, raResult, raCalls>>

toolVars == <<csVars, genVars, raVars>>

vars == <<store, fpVars, vqVars, wfVars, toolVars>>

\* What a caller can tell one result from another by without reading the
\* interpolated text: the fields present, the success flag and the fixed
\* text of the message.
ResultClass(r) ==
    [fields |-> DOMAIN r, success |-> r.success, template |-> r.message.template]

\* ------------------------------------------------------------- messages

\* A template string: its fixed text (named) and its interpolated values.
Msg(template, args) == [template |-> template, args |-> args]

\* --------------------------------------------- fileProcessorTool results

\* Mutant: a missing file is answered as a success.
ResultNotFoundAsSuccess(ctx) ==
    [success |-> TRUE,
     message |-> Msg("file not found", <<ctx.filePath>>),
     filePath |-> ctx.filePath,
     strategy |-> ctx.strategy]

\* lines 70-75
ResultNotFound(ctx) ==
    [success |-> FALSE,
     message |-> Msg("file not found", <<ctx.filePath>>),
     filePath |-> ctx.filePath,
     strategy |-> ctx.strategy]

\* lines 82-87
ResultEmpty(ctx) ==
    [success |-> FALSE,
     message |-> Msg("file is empty", <<ctx.filePath>>),
     filePath |-> ctx.filePath,
     strategy |-> ctx.strategy]

\* lines 125-131
ResultNoChunks(ctx, ft) ==
    [success |-> FALSE,
     message |-> Msg("no chunks extracted", <<ctx.filePath>>),
     filePath |-> ctx.filePath,
     strategy |-> ctx.strategy,
     fileType |-> ft]

\* lines 197-213
ResultStored(ctx, ft, cs) ==
    [success |-> TRUE,
     message |-> Msg("chunking and embedding completed", <<ctx.filePath, Len(cs)>>),
     filePath |-> ctx.filePath,
     strategy |-> ctx.strategy,
     chunkCount |-> Len(cs),
     fileType |-> ft,
     metadata |-> [totalChunks |-> Len(cs),
                   averageChunkLength |-> RoundDiv(SumLen(cs, 1, Len(cs)), Len(cs))]]

\* Mutant: the catch result also carries the metadata of a stored file.
ResultEmbeddingErrorWithMetadata(ctx, ft, cs, errMessage) ==
    [success |-> TRUE,
     message |-> Msg("chunking succeeded but embedding failed", <<ctx.filePath, errMessage>>),
     filePath |-> ctx.filePath,
     strategy |-> ctx.strategy,
     chunkCount |-> Len(cs),
     fileType |-> ft,
     metadata |-> [totalChunks |-> Len(cs),
                   averageChunkLength |-> RoundDiv(SumLen(cs, 1, Len(cs)), Len(cs))]]

\* Mutant: the catch result reports a failure.
ResultEmbeddingErrorAsFailure(ctx, ft, cs, errMessage) ==
    [success |-> FALSE,
     message |-> Msg("chunking succeeded but embedding failed", <<ctx.filePath, errMessage>>),
     filePath |-> ctx.filePath,
     strategy |-> ctx.strategy,
     chunkCount |-> Len(cs),
     fileType |-> ft]

\* lines 219-226: the catch of the inner try (index creation, embedding, upsert)
ResultEmbeddingError(ctx, ft, cs, errMessage) ==
    [success |-> TRUE,
     message |-> Msg("chunking succeeded but embedding failed", <<ctx.filePath, errMessage>>),
     filePath |-> ctx.filePath,
     strategy |-> ctx.strategy,
     chunkCount |-> Len(cs),
     fileType |-> ft]

\* Mutant: the outer catch answers without the file's path.
ResultProcessingErrorWithoutPath(ctx, errMessage) ==
    [success |-> FALSE,
     message |-> Msg("error while processing file", <<errMessage>>),
     strategy |-> ctx.strategy]

\* lines 229-234: the catch of the outer try
ResultProcessingError(ctx, errMessage) ==
    [success |-> FALSE,
     message |-> Msg("error while processing file", <<errMessage>>),
     filePath |-> ctx.filePath,
     strategy |-> ctx.strategy]

\* ------------------------------------------------------- vector store

NoIndex == [absent |-> TRUE]

IndexExists(st, name) == st[name] # NoIndex

\* Mutant: the index is created with the dimension of another model.
CreateIndexOtherDimension(st, name, dimension) ==
    IF IndexExists(st, name) THEN st
    ELSE [st EXCEPT ![name] = [dimension |-> 2 * dimension, records |-> << >>]]

\* LibSQLVector.createIndex: creates the index when it is absent and leaves
\* an existing index as it is.
CreateIndex(st, name, dimension) ==
    IF IndexExists(st, name) THEN st
    ELSE [st EXCEPT ![name] = [dimension |-> dimension, records |-> << >>]]

\* Mutant: a record whose metadata is upserted again is replaced.
UpsertReplacing(st, name, vectors, metas) ==
    LET old == st[name].records
        kept == SelectSeq(old, LAMBDA r : \A k \in 1..Len(metas) : r.metadata # metas[k])
    IN  [st EXCEPT ![name].records =
            kept \o [k \in 1..Len(vectors) |-> [vector |-> vectors[k], metadata |-> metas[k]]]]

\* LibSQLVector.upsert: one record per (vector, metadata) pair, appended in
\* order under a fresh id (no id is passed, so nothing is replaced).
Upsert(st, name, vectors, metas) ==
    [st EXCEPT ![name].records =
        @ \o [k \in 1..Len(vectors) |-> [vector |-> vectors[k], metadata |-> metas[k]]]]

\* ----------------------------------------------- fileProcessorTool.execute

\* Mutant: the metadata entry holds the text of another chunk.
MetadataOfOtherChunk(ctx, ft, chunk) ==
    [text |-> [chunk.text EXCEPT !.ord = @ + 1],
     filePath |-> ctx.filePath, fileType |-> ft]

\* lines 171-176: one metadata entry per chunk
MetadataOf(ctx, ft, chunk) ==
    [text |-> chunk.text, filePath |-> ctx.filePath, fileType |-> ft]

\* lines 91-114: the file type chosen from the lower-cased extension
FileTypeOf(filePath) ==
    LET fileExt == ToLowerCase(ExtName(filePath))
    IN  CASE fileExt \in {".md", ".markdown"} -> "markdown"
          [] fileExt \in {".html", ".htm"} -> "html"
          [] fileExt = ".json" -> "json"
          [] OTHER -> "text"

\* execute returns: the result is handed to the caller
FpReturn(result) ==
    /\ fpResult' = result
    /\ fpPc' = "done"

\* The agent calls the tool: lines 53-63.
FpStart ==
    /\ UNCHANGED <<vqVars, wfVars, toolVars>>
    /\ fpPc \in {"idle", "done"}
    /\ fpRuns < MaxRuns
    /\ \E p \in Paths, s \in Strategies, z \in Sizings, n \in IndexNames :
          fpCtx' = [filePath |-> p, strategy |-> s, chunkSize |-> z.chunkSize,
                    overlap |-> z.overlap, indexName |-> n]
    /\ fpPc' = "access"
    /\ fpRuns' = fpRuns + 1
    /\ fileType' = "text"
    /\ chunks' = << >>
    /\ allEmbeddings' = << >>
    /\ metadata' = << >>
    /\ loopI' = 0
    /\ fpResult' = Null
    /\ fpCalls' = << >>
    /\ UNCHANGED <<store, runEmbedCalls, firstEmbedFailed, embedFailureClasses,
                   ingested>>

\* lines 67-76: await fs.access(filePath)
FpAccess ==
    /\ UNCHANGED <<vqVars, wfVars, toolVars>>
    /\ fpPc = "access"
    /\ LET ok == FileSystem[fpCtx.filePath].exists
       IN  /\ fpCalls' = Append(fpCalls, [op |-> "access", ok |-> ok])
           /\ IF ok
              THEN fpPc' = "readFile" /\ UNCHANGED fpResult
              ELSE FpReturn(ResultNotFound(fpCtx))
    /\ UNCHANGED <<store, fpCtx, fileType, chunks, allEmbeddings, metadata,
                   loopI, fpRuns, runEmbedCalls, firstEmbedFailed,
                   embedFailureClasses, ingested>>

\* lines 79-114: await fs.readFile, the empty check, the format switch
FpReadFile ==
    /\ UNCHANGED <<vqVars, wfVars, toolVars>>
    /\ fpPc = "readFile"
    /\ LET file == FileSystem[fpCtx.filePath]
       IN  /\ fpCalls' = Append(fpCalls, [op |-> "readFile", ok |-> file.readable])
           /\ IF ~file.readable
              THEN /\ \E e \in ReadErrors : FpReturn(ResultProcessingError(fpCtx, e))
                   /\ UNCHANGED fileType
              ELSE IF file.content = ""
              THEN /\ FpReturn(ResultEmpty(fpCtx))
                   /\ UNCHANGED fileType
              ELSE /\ fileType' = FileTypeOf(fpCtx.filePath)
                   /\ fpPc' = "chunk"
                   /\ UNCHANGED fpResult
    /\ UNCHANGED <<store, fpCtx, chunks, allEmbeddings, metadata, loopI,
                   fpRuns, runEmbedCalls, firstEmbedFailed, embedFailureClasses,
                   ingested>>

\* lines 117-119: the strategy passed to doc.chunk
ChunkStrategy(ctx, ft) == ctx.strategy

\* lines 117-132: await doc.chunk({strategy, size, overlap, separator})
FpChunk ==
    /\ UNCHANGED <<vqVars, wfVars, toolVars>>
    /\ fpPc = "chunk"
    /\ \/ \E e \in ChunkErrors :
            /\ fpCalls' = Append(fpCalls, [op |-> "chunk", ok |-> FALSE,
                                           strategy |-> ChunkStrategy(fpCtx, fileType)])
            /\ FpReturn(ResultProcessingError(fpCtx, e))
            /\ UNCHANGED chunks
       \/ LET n == ChunkCount(fpCtx.filePath, ChunkStrategy(fpCtx, fileType)) IN
            /\ fpCalls' = Append(fpCalls, [op |-> "chunk", ok |-> TRUE,
                                           strategy |-> ChunkStrategy(fpCtx, fileType)])
            /\ chunks' = [k \in 1..n |->
                             ChunkOf(FileSystem[fpCtx.filePath].content, k)]
            /\ IF n = 0
               THEN FpReturn(ResultNoChunks(fpCtx, fileType))
               ELSE fpPc' = "createIndex" /\ UNCHANGED fpResult
    /\ UNCHANGED <<store, fpCtx, fileType, allEmbeddings, metadata, loopI,
                   fpRuns, runEmbedCalls, firstEmbedFailed, embedFailureClasses,
                   ingested>>

\* lines 141-154: new LibSQLVector, await vectorStore.createIndex
FpCreateIndex ==
    /\ UNCHANGED <<vqVars, wfVars, toolVars>>
    /\ fpPc = "createIndex"
    /\ IF ValidIndexName(fpCtx.indexName)
       THEN /\ fpCalls' = Append(fpCalls, [op |-> "createIndex", ok |-> TRUE,
                                 indexName |-> fpCtx.indexName,
                                 dimension |-> IndexDimension,
                                 existed |-> IndexExists(store, fpCtx.indexName)])
            /\ store' = CreateIndex(store, fpCtx.indexName, IndexDimension)
            /\ allEmbeddings' = << >>
            /\ loopI' = 0
            /\ fpPc' = "embed"
            /\ UNCHANGED fpResult
       ELSE /\ fpCalls' = Append(fpCalls, [op |-> "createIndex", ok |-> FALSE,
                                 indexName |-> fpCtx.indexName,
                                 dimension |-> IndexDimension,
                                 existed |-> IndexExists(store, fpCtx.indexName)])
            /\ FpReturn(ResultEmbeddingError(fpCtx, fileType, chunks,
                                             "invalid index name"))
            /\ UNCHANGED <<store, allEmbeddings, loopI>>
    /\ UNCHANGED <<fpCtx, fileType, chunks, metadata, fpRuns, runEmbedCalls,
                   firstEmbedFailed, embedFailureClasses, ingested>>

\* Mutant: the slice ends one chunk early.
BatchValuesShort(cs, i) ==
    Map(LAMBDA chunk : chunk.text, Slice(cs, i, i + batchSize - 1))

\* lines 157-165: the values of one embedMany call
BatchValues(cs, i) ==
    Map(LAMBDA chunk : chunk.text, Slice(cs, i, i + batchSize))

\* Mutant: the loop stops one batch early.
EmbedLoopStopsEarly(i, n) == i + batchSize < n - batchSize

\* line 156: after i += batchSize, the test i < chunks.length
EmbedLoopContinues(i, n) == i + batchSize < n

\* Mutant: the upsert loop stops one batch early.
UpsertLoopStopsEarly(i, n) == i + batchSize < n - batchSize

\* line 179: after i += batchSize, the test i < allEmbeddings.length
UpsertLoopContinues(i, n) == i + batchSize < n

\* Mutant: a failed embedMany call is swallowed and the loop goes on.
FpEmbedBatchIgnoresFailure ==
    /\ UNCHANGED <<vqVars, wfVars, toolVars>>
    /\ fpPc = "embed"
    /\ loopI < Len(chunks)
    /\ runEmbedCalls' = runEmbedCalls + 1
    /\ \E ok \in BOOLEAN :
          /\ fpCalls' = Append(fpCalls, [op |-> "embedMany", ok |-> ok,
                                         values |-> BatchValues(chunks, loopI)])
          /\ allEmbeddings' = allEmbeddings \o
                                 Map(Embedding, BatchValues(chunks, loopI))
    /\ IF loopI + batchSize < Len(chunks)
       THEN /\ loopI' = loopI + batchSize
            /\ UNCHANGED <<fpPc, metadata>>
       ELSE /\ metadata' = Map(LAMBDA chunk :
                                  MetadataOf(fpCtx, fileType, chunk), chunks)
            /\ loopI' = 0
            /\ fpPc' = "upsert"
    /\ UNCHANGED <<store, fpCtx, fileType, chunks, fpRuns, ingested, fpResult,
                   firstEmbedFailed, embedFailureClasses>>

\* lines 156-176: one pass of the embedding loop; when the loop ends the
\* metadata is prepared and the upsert loop starts at i = 0.
FpEmbedBatch ==
    /\ UNCHANGED <<vqVars, wfVars, toolVars>>
    /\ fpPc = "embed"
    /\ loopI < Len(chunks)
    /\ runEmbedCalls' = runEmbedCalls + 1
    /\ LET values == BatchValues(chunks, loopI)
       IN  \/ /\ fpCalls' = Append(fpCalls, [op |-> "embedMany", ok |-> TRUE,
                                             values |-> values])
              /\ allEmbeddings' = allEmbeddings \o Map(Embedding, values)
              /\ UNCHANGED <<fpResult, firstEmbedFailed, embedFailureClasses>>
              /\ IF EmbedLoopContinues(loopI, Len(chunks))
                 THEN /\ loopI' = loopI + batchSize
                      /\ UNCHANGED <<fpPc, metadata>>
                 ELSE /\ metadata' = Map(LAMBDA chunk :
                                            MetadataOf(fpCtx, fileType, chunk), chunks)
                      /\ loopI' = 0
                      /\ fpPc' = "upsert"
           \/ \E e \in EmbedErrors :
              /\ fpCalls' = Append(fpCalls, [op |-> "embedMany", ok |-> FALSE,
                                             values |-> values])
              /\ firstEmbedFailed' = (firstEmbedFailed \/ runEmbedCalls = 0)
              /\ FpReturn(ResultEmbeddingError(fpCtx, fileType, chunks, e))
              /\ embedFailureClasses' = embedFailureClasses \cup
                    {ResultClass(ResultEmbeddingError(fpCtx, fileType, chunks, e))}
              /\ UNCHANGED <<allEmbeddings, metadata, loopI>>
    /\ UNCHANGED <<store, fpCtx, fileType, chunks, fpRuns, ingested>>

\* lines 179-213: one pass of the upsert loop; when it ends execute returns
FpUpsertBatch ==
    /\ UNCHANGED <<vqVars, wfVars, toolVars>>
    /\ fpPc = "upsert"
    /\ loopI < Len(allEmbeddings)
    /\ LET batchEmbeddings == Slice(allEmbeddings, loopI, loopI + batchSize)
           batchMetadata == Slice(metadata, loopI, loopI + batchSize)
       IN  \/ /\ fpCalls' = Append(fpCalls, [op |-> "upsert", ok |-> TRUE,
                                   indexName |-> fpCtx.indexName,
                                   vectors |-> batchEmbeddings,
                                   metadata |-> batchMetadata])
              /\ store' = Upsert(store, fpCtx.indexName, batchEmbeddings,
                                 batchMetadata)
              /\ ingested' =
                    IF loopI = 0
                    THEN Append(ingested, [filePath |-> fpCtx.filePath,
                                           indexName |-> fpCtx.indexName,
                                           chunkCount |-> Len(chunks),
                                           upserted |-> Len(batchEmbeddings)])
                    ELSE [ingested EXCEPT ![Len(ingested)].upserted =
                                              @ + Len(batchEmbeddings)]
              /\ IF UpsertLoopContinues(loopI, Len(allEmbeddings))
                 THEN /\ loopI' = loopI + batchSize
                      /\ UNCHANGED <<fpPc, fpResult>>
                 ELSE /\ FpReturn(ResultStored(fpCtx, fileType, chunks))
                      /\ UNCHANGED loopI
           \/ \E e \in UpsertErrors :
              /\ fpCalls' = Append(fpCalls, [op |-> "upsert", ok |-> FALSE,
                                   indexName |-> fpCtx.indexName,
                                   vectors |-> batchEmbeddings,
                                   metadata |-> batchMetadata])
              /\ FpReturn(ResultEmbeddingError(fpCtx, fileType, chunks, e))
              /\ UNCHANGED <<store, loopI, ingested>>
    /\ UNCHANGED <<fpCtx, fileType, chunks, allEmbeddings, metadata, fpRuns,
                   runEmbedCalls, firstEmbedFailed, embedFailureClasses>>

\* ------------------------------------------------- vectorQueryTool.execute

\* Largest number of vectorQueryTool calls in one run.
MaxQueries == 2

\* The query strings a caller passes.
Queries == {"auth flow", "router"}

\* Errors of the store's query and of opening the database.
QueryErrors == {"database is locked"}
OpenErrors == {"unable to open database file"}

\* The error the store throws for a query against an index never created.
IndexNotFoundError == "no such table"

\* The number of results the store returns when the caller passes no topK.
DefaultTopK == 10

\* The lowest score the store returns when the caller passes no minScore.
DefaultMinScore == 0

Undefined == [undefined |-> TRUE]

\* The similarity (in hundredths) the store computes between two vectors.
Score(queryVector, vector) ==
    (37 * vector.vectorOf.ord + (IF queryVector.vectorOf = "router" THEN 11 ELSE 0)) % 101

RECURSIVE InsertByScore(_, _)
\* sorted (descending score, earlier record first among equals) with r inserted
InsertByScore(sorted, r) ==
    IF sorted = << >> THEN <<r>>
    ELSE IF Head(sorted).score >= r.score
         THEN <<Head(sorted)>> \o InsertByScore(Tail(sorted), r)
         ELSE <<r>> \o sorted

RECURSIVE SortByScore(_, _)
\* the first k entries of arr, sorted by descending score
SortByScore(arr, k) ==
    IF k = 0 THEN << >> ELSE InsertByScore(SortByScore(arr, k - 1), arr[k])

\* LibSQLVector.query on an existing index: the topK records of highest
\* score among those of score >= minScore, each as {id, score, metadata}.
QueryStore(st, name, queryVector, topK, minScore) ==
    LET recs == st[name].records
        scored == [k \in 1..Len(recs) |->
                      [id |-> k, score |-> Score(queryVector, recs[k].vector),
                       metadata |-> recs[k].metadata]]
        kept == SelectSeq(scored, LAMBDA r : r.score >= minScore)
        sorted == SortByScore(kept, Len(kept))
    IN  SubSeq(sorted, 1, Min(topK, Len(sorted)))

\* An optional value: << >> when undefined, <<v>> when it is v.
None == << >>
Some(v) == <<v>>

\* result.similarity, result.metadata?.text: a property read, which gives
\* undefined for a property the object does not have
Field(obj, name) == IF name \in DOMAIN obj THEN Some(obj[name]) ELSE None

\* a || b for an optional a
OrElse(a, b) == IF a = None THEN b ELSE a[1]

\* the empty string, as a text
EmptyText == [doc |-> "", ord |-> 0, length |-> 0]

\* lines 68-74: one formatted result
FormatResult(result) ==
    LET md == OrElse(Field(result, "metadata"), << >>)
    IN  [text |-> OrElse(Field(md, "text"), EmptyText),
         filePath |-> OrElse(Field(md, "filePath"), ""),
         fileType |-> OrElse(Field(md, "fileType"), ""),
         similarity |-> Field(result, "similarity"),
         metadata |-> md]

\* lines 60-64
VqResultEmpty ==
    [success |-> TRUE,
     message |-> Msg("no matching results", << >>),
     results |-> << >>]

\* Mutant: the last record the store returned is left out.
VqResultFoundDropsLast(searchResults) ==
    [success |-> TRUE,
     message |-> Msg("results found", <<Len(searchResults)>>),
     results |-> Map(FormatResult, SubSeq(searchResults, 1, Len(searchResults) - 1))]

\* lines 76-80
VqResultFound(searchResults) ==
    [success |-> TRUE,
     message |-> Msg("results found", <<Len(searchResults)>>),
     results |-> Map(FormatResult, searchResults)]

\* Mutant: the catch answers like an empty search.
VqResultEmbeddingErrorAsEmpty(errMessage) ==
    [success |-> TRUE,
     message |-> Msg("error in embedding", <<errMessage>>),
     results |-> << >>]

\* lines 86-90: the catch of the inner try (embed and query)
VqResultEmbeddingError(errMessage) ==
    [success |-> FALSE,
     message |-> Msg("error in embedding", <<errMessage>>),
     results |-> << >>]

\* lines 93-97: the catch of the outer try
VqResultSearchError(errMessage) ==
    [success |-> FALSE,
     message |-> Msg("error while searching", <<errMessage>>),
     results |-> << >>]

VqReturn(result) ==
    /\ vqResult' = result
    /\ vqPc' = "done"

\* The agent calls the tool: line 38.
VqStart ==
    /\ UNCHANGED <<store, fpVars, wfVars, toolVars>>
    /\ vqPc \in {"idle", "done"}
    /\ vqRuns < MaxQueries
    /\ \E q \in Queries, n \in AllIndexNames :
          vqCtx' = [query |-> q, indexName |-> n]
    /\ vqPc' = "open"
    /\ vqRuns' = vqRuns + 1
    /\ vqEmbedding' = Undefined
    /\ vqResult' = Null
    /\ vqCalls' = << >>
    /\ UNCHANGED vqEmbedFailureClasses

\* lines 42-44: new LibSQLVector
VqOpen ==
    /\ UNCHANGED <<store, fpVars, wfVars, toolVars>>
    /\ vqPc = "open"
    /\ \/ /\ vqCalls' = Append(vqCalls, [op |-> "open", ok |-> TRUE])
          /\ vqPc' = "embed"
          /\ UNCHANGED vqResult
       \/ \E e \in OpenErrors :
          /\ vqCalls' = Append(vqCalls, [op |-> "open", ok |-> FALSE])
          /\ VqReturn(VqResultSearchError(e))
    /\ UNCHANGED <<vqCtx, vqEmbedding, vqRuns, vqEmbedFailureClasses>>

\* lines 48-51: await embed({model, value: query})
VqEmbed ==
    /\ UNCHANGED <<store, fpVars, wfVars, toolVars>>
    /\ vqPc = "embed"
    /\ \/ /\ vqCalls' = Append(vqCalls, [op |-> "embed", ok |-> TRUE])
          /\ vqEmbedding' = Embedding(vqCtx.query)
          /\ vqPc' = "query"
          /\ UNCHANGED <<vqResult, vqEmbedFailureClasses>>
       \/ \E e \in EmbedErrors :
          /\ vqCalls' = Append(vqCalls, [op |-> "embed", ok |-> FALSE])
          /\ VqReturn(VqResultEmbeddingError(e))
          /\ vqEmbedFailureClasses' = vqEmbedFailureClasses \cup
                {ResultClass(VqResultEmbeddingError(e))}
          /\ UNCHANGED vqEmbedding
    /\ UNCHANGED <<vqCtx, vqRuns>>

\* lines 54-57: the argument object of vectorStore.query
QueryParams(ctx, embedding) ==
    [indexName |-> ctx.indexName, queryVector |-> embedding]

\* LibSQLVector.query called with an argument object: topK and minScore
\* take the store's defaults when the object does not have them.
QueryWith(st, params) ==
    QueryStore(st, params.indexName, params.queryVector,
               OrElse(Field(params, "topK"), DefaultTopK),
               OrElse(Field(params, "minScore"), DefaultMinScore))

\* lines 54-80: await vectorStore.query({indexName, queryVector}), the
\* empty check and the formatting
VqQuery ==
    /\ UNCHANGED <<store, fpVars, wfVars, toolVars>>
    /\ vqPc = "query"
    /\ \/ /\ ~IndexExists(store, vqCtx.indexName)
          /\ vqCalls' = Append(vqCalls, [op |-> "query", ok |-> FALSE,
                                         params |-> QueryParams(vqCtx, vqEmbedding),
                                         error |-> IndexNotFoundError])
          /\ VqReturn(VqResultEmbeddingError(IndexNotFoundError))
       \/ /\ IndexExists(store, vqCtx.indexName)
          /\ \E e \in QueryErrors :
               /\ vqCalls' = Append(vqCalls, [op |-> "query", ok |-> FALSE,
                                              params |-> QueryParams(vqCtx, vqEmbedding),
                                              error |-> e])
               /\ VqReturn(VqResultEmbeddingError(e))
       \/ /\ IndexExists(store, vqCtx.indexName)
          /\ LET searchResults == QueryWith(store, QueryParams(vqCtx, vqEmbedding))
             IN  /\ vqCalls' = Append(vqCalls, [op |-> "query", ok |-> TRUE,
                                                params |-> QueryParams(vqCtx, vqEmbedding),
                                                returned |-> searchResults])
                 /\ IF Len(searchResults) = 0
                    THEN VqReturn(VqResultEmpty)
                    ELSE VqReturn(VqResultFound(searchResults))
    /\ UNCHANGED <<vqCtx, vqEmbedding, vqRuns, vqEmbedFailureClasses>>

\* ------------------------------------------------------ cloneRepositoryTool

\* process.cwd(), as path segments ("/work")
Cwd == <<"", "work">>

\* path.isAbsolute on a path held as its segments
IsAbsolute(path) == Len(path) > 0 /\ path[1] = ""

\* path.resolve(base, path)
Resolve(base, path) == IF IsAbsolute(path) THEN path ELSE base \o path

\* Array.prototype.pop() of str.split("/"): the last segment
LastSegment(segments) == segments[Len(segments)]

\* String.prototype.replace(".git", "") on the names that occur
ReplaceDotGit(name) ==
    CASE name = "hono.git" -> "hono"
      [] name = ".git" -> ""
      [] OTHER -> name

\* The repository URLs a caller passes, split at "/".
RepositoryUrls ==
    {<<"https:", "", "github.com", "honojs", "hono">>,
     <<"https:", "", "github.com", "honojs", "hono.git">>,
     <<"https:", "", "github.com", "honojs", "hono", "">>}

Branches == {None, Some("main")}

GitErrors == {"repository not found"}

\* lines 63-66
RepoName(repositoryUrl) ==
    LET name == ReplaceDotGit(LastSegment(repositoryUrl))
    IN  IF name = "" THEN "repo" ELSE name

\* lines 119-133: the result of the catch, with its placeholder path
CloneResultFailed(errMessage) ==
    [success |-> FALSE,
     message |-> Msg("clone failed", <<errMessage>>),
     repositoryFullPath |-> Resolve(Cwd, <<"repo">>),
     cloneDirectoryName |-> <<"repo">>]

\* Mutant: the skip answers with the placeholder path of the catch.
CloneResultSkippedWithPlaceholder(cloneDir, fullPath) ==
    [success |-> TRUE,
     message |-> Msg("directory exists, clone skipped", <<cloneDir>>),
     repositoryFullPath |-> Resolve(Cwd, <<"repo">>),
     cloneDirectoryName |-> <<"repo">>]

\* lines 70-75
CloneResultSkipped(cloneDir, fullPath) ==
    [success |-> TRUE,
     message |-> Msg("directory exists, clone skipped", <<cloneDir>>),
     repositoryFullPath |-> fullPath,
     cloneDirectoryName |-> cloneDir]

\* lines 112-117
CloneResultCloned(cloneDir, fullPath) ==
    [success |-> TRUE,
     message |-> Msg("cloned", <<fullPath>>),
     repositoryFullPath |-> fullPath,
     cloneDirectoryName |-> cloneDir]

\* lines 57-135 without LFS: the result, the directories afterwards and the
\* git commands issued, for a git clone that succeeds (gitError = None)
\* or fails with gitError[1].
CloneRepository(ctx, dirs, gitError) ==
    LET cloneDir == <<RepoName(ctx.repositoryUrl)>>
        fullPath == Resolve(Cwd, cloneDir)
        command == [cmd |-> "git clone", url |-> ctx.repositoryUrl,
                    branch |-> ctx.branch, dir |-> cloneDir]
    IN  IF fullPath \in dirs
        THEN [result |-> CloneResultSkipped(cloneDir, fullPath),
              dirs |-> dirs, git |-> << >>]
        ELSE IF gitError = None
        THEN [result |-> CloneResultCloned(cloneDir, fullPath),
              dirs |-> dirs \cup {fullPath}, git |-> <<command>>]
        ELSE [result |-> CloneResultFailed(gitError[1]),
              dirs |-> dirs, git |-> <<command>>]

\* Largest number of cloneRepositoryTool calls on one working directory.
MaxClones == 2

\* One call of the tool as the history keeps it: its input, whether the
\* target directory existed (fs.existsSync, line 69), the result and the
\* git commands of the call.
CloneRun(ctx, dirs, run) ==
    [ctx |-> ctx,
     existed |-> Resolve(Cwd, <<RepoName(ctx.repositoryUrl)>>) \in dirs,
     result |-> run.result,
     git |-> run.git]

\* The agent calls the clone tool: lines 57-135.
CloneCall ==
    /\ UNCHANGED <<store, fpVars, vqVars, toolVars>>
    /\ fpPc \in {"idle", "done"}
    /\ Len(cloneRuns) < MaxClones
    /\ \E u \in RepositoryUrls, b \in Branches,
          gitError \in {None} \cup {Some(e) : e \in GitErrors} :
            LET ctx == [repositoryUrl |-> u, branch |-> b]
                run == CloneRepository(ctx, wfDirs, gitError)
            IN  /\ wfDirs' = run.dirs
                /\ wfGit' = wfGit \o run.git
                /\ cloneRuns' = Append(cloneRuns, CloneRun(ctx, wfDirs, run))
    /\ UNCHANGED <<wfPc, wfTrigger, wfResults, wfExecuted>>

\* ------------------------------------------------------ cursorRulesWorkflow

\* lines 572-576: the stages in the order .step().then()... chains them
StageOrder ==
    <<"clone-repository", "analyze-repository", "identify-important-files",
      "process-files", "generate-cursor-rules">>

StageIndex(id) == CHOOSE k \in 1..Len(StageOrder) : StageOrder[k] = id

OutputPaths == {None, Some("rules.mdc")}

\* The structured object the agent answers the clone prompt with: the clone
\* tool's result, in full or with optional fields left out.
CloneObjects(toolResult) ==
    {toolResult,
     [success |-> toolResult.success, message |-> toolResult.message,
      cloneDirectoryName |-> toolResult.cloneDirectoryName],
     [success |-> toolResult.success, message |-> toolResult.message]}

\* lines 347-375: the output of the clone stage from the agent's object
CloneStageOutput(object) ==
    LET repositoryFullPath == Field(object, "repositoryFullPath")
        cloneDirectoryName == Field(object, "cloneDirectoryName")
        actualRepositoryPath ==
            IF repositoryFullPath = None /\ cloneDirectoryName # None
            THEN Some(Resolve(Cwd, cloneDirectoryName[1]))
            ELSE repositoryFullPath
    IN  [success |-> object.success,
         repositoryPath |-> OrElse(actualRepositoryPath, << >>),
         message |-> object.message]

\* Object.entries(languageSummary) as the agent may report it: (language,
\* code lines) pairs in insertion order.
LanguageSummaries ==
    {<< >>,
     <<<<"TypeScript", 120>>, <<"JSON", 120>>, <<"Markdown", 40>>>>,
     <<<<"Markdown", 40>>, <<"TypeScript", 120>>>>,
     <<<<"TOML", 0>>>>,
     <<<<"TOML", 0>>, <<"JSON", 0>>>>,
     <<<<"TOML", 0>>, <<"Markdown", 40>>, <<"JSON", 40>>>>}

RECURSIVE MainLanguageFromLastWins(_, _, _, _)
\* Mutant: a language that equals the maximum so far replaces it.
MainLanguageFromLastWins(entries, k, maxCode, mainLanguage) ==
    IF k > Len(entries) THEN mainLanguage
    ELSE IF entries[k][2] >= maxCode
         THEN MainLanguageFromLastWins(entries, k + 1, entries[k][2], entries[k][1])
         ELSE MainLanguageFromLastWins(entries, k + 1, maxCode, mainLanguage)

RECURSIVE MainLanguageFrom(_, _, _, _)
\* lines 428-436: the loop over the entries from position k on
MainLanguageFrom(entries, k, maxCode, mainLanguage) ==
    IF k > Len(entries) THEN mainLanguage
    ELSE IF entries[k][2] > maxCode
         THEN MainLanguageFrom(entries, k + 1, entries[k][2], entries[k][1])
         ELSE MainLanguageFrom(entries, k + 1, maxCode, mainLanguage)

\* lines 426-437
MainLanguage(tokeiStats) ==
    IF tokeiStats = None THEN ""
    ELSE IF Field(tokeiStats[1], "languageSummary") = None THEN ""
    ELSE MainLanguageFrom(tokeiStats[1].languageSummary, 1, 0, "")

\* lines 439-446
AnalyzeStageOutput(object) ==
    [success |-> TRUE,
     summary |-> OrElse(Field(object, "message"), ""),
     readmeInfo |-> OrElse(Field(object, "readmeInfo"), << >>),
     tokeiStats |-> OrElse(Field(object, "tokeiStats"), << >>),
     directoryStructure |-> OrElse(Field(object, "directoryStructure"), << >>),
     mainLanguage |-> MainLanguage(Field(object, "tokeiStats"))]

\* The message the agent gives with its success flag.
AnalyzeMessage(ok) == IF ok THEN "analysis" ELSE "analysis failed"

\* The structured objects the agent answers the analysis prompt with.
AnalyzeObjects ==
    {[success |-> ok, message |-> AnalyzeMessage(ok)] : ok \in BOOLEAN}
    \cup {[success |-> ok, message |-> AnalyzeMessage(ok),
           tokeiStats |-> [languageSummary |-> ls]] :
             ok \in BOOLEAN, ls \in LanguageSummaries}
    \cup {[success |-> TRUE, message |-> "analysis", tokeiStats |-> [success |-> FALSE]]}

\* The file lists the agent's first tool call carries (None: no tool call).
FileLists == {None, Some(<<"README.md", "main.ts">>)}

\* Mutant: the stage after the one that returned is skipped.
StageReturnedSkipsOne(id, output) ==
    /\ wfResults' = [wfResults EXCEPT ![id] = output]
    /\ wfPc' = IF StageIndex(id) = Len(StageOrder) THEN "completed"
               ELSE StageOrder[Min(StageIndex(id) + 2, Len(StageOrder))]

\* The stages whose output a stage's execute reads with getStepResult (every
\* stage may also read the trigger).
StageReads(id) ==
    CASE id = "clone-repository" -> {}
      [] id = "analyze-repository" -> {"clone-repository"}
      [] id = "identify-important-files" -> {"clone-repository", "analyze-repository"}
      [] id = "process-files" -> {"clone-repository", "identify-important-files"}
      [] id = "generate-cursor-rules" -> {"clone-repository", "process-files"}

\* The workflow engine after a stage: the next stage follows a stage that
\* returned, whatever it returned; a stage that threw fails the run.
StageReturned(id, output) ==
    /\ wfResults' = [wfResults EXCEPT ![id] = output]
    /\ wfPc' = IF StageIndex(id) = Len(StageOrder) THEN "completed"
               ELSE StageOrder[StageIndex(id) + 1]

StageThrew(id) ==
    /\ wfPc' = "failed"
    /\ UNCHANGED wfResults

\* A run is triggered with the trigger schema's data.
WfStart ==
    /\ UNCHANGED <<store, fpVars, vqVars, toolVars>>
    /\ wfPc = "idle"
    /\ \E u \in RepositoryUrls, b \in Branches, o \in OutputPaths :
          wfTrigger' = [repositoryUrl |-> u, branch |-> b, outputPath |-> o]
    /\ wfPc' = StageOrder[1]
    /\ UNCHANGED <<wfResults, wfExecuted, wfDirs, wfGit, cloneRuns>>

\* lines 323-376: the agent is made to call the clone tool and answers with
\* an object of the clone schema.
WfClone ==
    /\ UNCHANGED <<store, fpVars, vqVars, toolVars>>
    /\ wfPc = "clone-repository"
    /\ wfExecuted' = Append(wfExecuted, "clone-repository")
    /\ \/ /\ StageThrew("clone-repository")
          /\ UNCHANGED <<wfDirs, wfGit, cloneRuns>>
       \/ \E gitError \in {None} \cup {Some(e) : e \in GitErrors} :
            LET ctx == [repositoryUrl |-> wfTrigger.repositoryUrl,
                        branch |-> wfTrigger.branch]
                run == CloneRepository(ctx, wfDirs, gitError)
            IN  /\ wfDirs' = run.dirs
                /\ wfGit' = wfGit \o run.git
                /\ cloneRuns' = Append(cloneRuns, CloneRun(ctx, wfDirs, run))
                /\ \E object \in CloneObjects(run.result) :
                      StageReturned("clone-repository", CloneStageOutput(object))
    /\ UNCHANGED wfTrigger

\* lines 393-447
WfAnalyze ==
    /\ UNCHANGED <<store, fpVars, vqVars, toolVars>>
    /\ wfPc = "analyze-repository"
    /\ wfExecuted' = Append(wfExecuted, "analyze-repository")
    /\ LET repositoryPath == wfResults["clone-repository"].repositoryPath
       IN  IF repositoryPath = << >>
           THEN StageThrew("analyze-repository")
           ELSE \/ StageThrew("analyze-repository")
                \/ \E object \in AnalyzeObjects :
                      StageReturned("analyze-repository", AnalyzeStageOutput(object))
    /\ UNCHANGED <<wfTrigger, wfDirs, wfGit, cloneRuns>>

\* lines 466-485
WfIdentify ==
    /\ UNCHANGED <<store, fpVars, vqVars, toolVars>>
    /\ wfPc = "identify-important-files"
    /\ wfExecuted' = Append(wfExecuted, "identify-important-files")
    /\ \/ StageThrew("identify-important-files")
       \/ \E files \in FileLists :
             StageReturned("identify-important-files",
                           [success |-> TRUE, plan |-> "plan",
                            importantFiles |-> OrElse(files, << >>)])
    /\ UNCHANGED <<wfTrigger, wfDirs, wfGit, cloneRuns>>

\* lines 502-520
WfProcess ==
    /\ UNCHANGED <<store, fpVars, vqVars, toolVars>>
    /\ wfPc = "process-files"
    /\ wfExecuted' = Append(wfExecuted, "process-files")
    /\ \/ StageThrew("process-files")
       \/ \E files \in FileLists :
             StageReturned("process-files",
                           [success |-> TRUE,
                            processedFiles |-> OrElse(files, << >>),
                            message |-> "processed"])
    /\ UNCHANGED <<wfTrigger, wfDirs, wfGit, cloneRuns>>

\* lines 542-544
FinalOutputPath(outputPath, repositoryPath) ==
    IF outputPath # None THEN [path |-> outputPath[1]]
    ELSE [dir |-> <<".", ".cursor", "rules">>,
          base |-> LastSegment(repositoryPath), ext |-> ".mdc"]

\* lines 537-564
WfGenerate ==
    /\ UNCHANGED <<store, fpVars, vqVars, toolVars>>
    /\ wfPc = "generate-cursor-rules"
    /\ wfExecuted' = Append(wfExecuted, "generate-cursor-rules")
    /\ \/ StageThrew("generate-cursor-rules")
       \/ StageReturned("generate-cursor-rules",
                        [success |-> TRUE, cursorRules |-> "rules",
                         outputPath |->
                            FinalOutputPath(wfTrigger.outputPath,
                                wfResults["clone-repository"].repositoryPath)])
    /\ UNCHANGED <<wfTrigger, wfDirs, wfGit, cloneRuns>>

WfIdle ==
    /\ wfPc = "idle"
    /\ wfTrigger = Null
    /\ wfResults = [k \in {StageOrder[j] : j \in 1..Len(StageOrder)} |-> Null]
    /\ wfExecuted = << >>
    /\ wfGit = << >>
    /\ cloneRuns = << >>

\* ------------------------------------------------- saveCheatsheetTool
\* (src/mastra/tools/cheatsheet/saveCheatsheet.ts)

\* Largest number of saveCheatsheetTool calls in one run.
MaxSaves == 3

\* A text is held as the sequence of its pieces; concatenation is \o.
SavePaths == {"rules.mdc"}
SaveContents == {<<"intro">>, <<"patterns">>}
SaveSections == {None, Some("Overview")}

\* What one call can meet: every file operation succeeds, fs.writeFile
\* rejects, or fs.stat rejects after the write.
SaveOutcomes == {"ok", "writeFile fails", "stat fails"}

\* Mutant: the file is always opened for writing from the start.
FlagAlwaysWrite(append) == "w"

\* line 58
Flag(append) == IF append THEN "a" ELSE "w"

\* lines 61-66: the section header put before the content
ContentToWrite(ctx) ==
    IF ctx.section # None /\ ~ctx.append
    THEN <<"# ", ctx.section[1], "\n\n">> \o ctx.content
    ELSE IF ctx.section # None /\ ctx.append
    THEN <<"\n\n# ", ctx.section[1], "\n\n">> \o ctx.content
    ELSE ctx.content

\* fs.writeFile(path, data, {flag}): "w" creates or truncates the file,
\* "a" creates it or writes at its end.
WriteFile(files, path, data, flag) ==
    [files EXCEPT ![path] =
        IF flag = "a" THEN Some(OrElse(@, << >>) \o data) ELSE Some(data)]

\* lines 74-84
SaveResultSaved(ctx, written, files) ==
    [success |-> TRUE,
     message |-> Msg(IF ctx.append THEN "appended" ELSE "saved",
                     <<ctx.outputPath, ctx.section>>),
     filePath |-> ctx.outputPath,
     filename |-> ctx.outputPath,
     bytesWritten |-> Len(written),
     isContinuation |-> ctx.append,
     contentLength |-> Len(files[ctx.outputPath][1])]

\* lines 86-91
SaveResultFailed(ctx, errMessage) ==
    [success |-> FALSE,
     message |-> Msg("error while saving", <<errMessage>>),
     filePath |-> ctx.outputPath,
     filename |-> ctx.outputPath]

\* lines 45-93: the files after the call and the result returned
SaveCheatsheet(ctx, files, outcome) ==
    LET written == ContentToWrite(ctx)
        after == WriteFile(files, ctx.outputPath, written, Flag(ctx.append))
    IN  CASE outcome = "writeFile fails" ->
                [files |-> files, result |-> SaveResultFailed(ctx, "EACCES")]
          [] outcome = "stat fails" ->
                [files |-> after, result |-> SaveResultFailed(ctx, "EIO")]
          [] OTHER ->
                [files |-> after, result |-> SaveResultSaved(ctx, written, after)]

\* The agent calls the tool.
SaveCall ==
    /\ UNCHANGED <<store, fpVars, vqVars, wfVars, genVars, raVars>>
    /\ Len(csCalls) < MaxSaves
    /\ \E c \in SaveContents, o \in SavePaths, a \in BOOLEAN, sec \in SaveSections,
          outcome \in SaveOutcomes :
            LET ctx == [content |-> c, outputPath |-> o, append |-> a, section |-> sec]
                run == SaveCheatsheet(ctx, csFiles, outcome)
            IN  /\ csFiles' = run.files
                /\ csCalls' = Append(csCalls, [ctx |-> ctx,
                                               written |-> ContentToWrite(ctx),
                                               before |-> csFiles[o],
                                               result |-> run.result])

CsIdle == csCalls = << >>

\* ------------------------------------------ generateSectionedCheatsheet
\* (src/mastra/cheatsheet/generator.ts)

\* lines 51-130: the ids of the standard sections, in definition order
StandardSectionIds ==
    <<"project-overview", "project-structure", "important-elements",
      "coding-conventions", "design-patterns", "best-practices", "summary">>

\* lines 45-131
GetStandardSections(options) ==
    [k \in 1..Len(StandardSectionIds) |->
        [id |-> StandardSectionIds[k],
         title |-> <<"title of", StandardSectionIds[k]>>,
         prompt |-> <<StandardSectionIds[k], options.repositoryPath,
                      options.processedFiles>>]]

\* Errors agent.generate throws when it writes a section, and when it is
\* made to save one.
GenerateErrors == {"rate limit exceeded", "request timed out"}
SaveErrors == {"tool call failed"}

\* The objects the agent answers the save request with: the result of the
\* save-cheatsheet tool, which has bytesWritten when the write succeeded.
SaveObjects ==
    {[success |-> TRUE, message |-> "saved", filePath |-> "rules.mdc",
      filename |-> "rules.mdc", bytesWritten |-> 12],
     [success |-> FALSE, message |-> "error while saving",
      filePath |-> "rules.mdc", filename |-> "rules.mdc"]}

\* Mutant: the entry takes the success flag of the save result.
SectionEntrySavedFromResult(section, saveResult) ==
    [id |-> section.id, title |-> section.title, success |-> saveResult.success,
     contentLength |-> Field(saveResult, "bytesWritten")]

\* lines 198-203: the entry of a section whose two requests returned
SectionEntrySaved(section, saveResult) ==
    [id |-> section.id, title |-> section.title, success |-> TRUE,
     contentLength |-> Field(saveResult, "bytesWritten")]

\* lines 214-218: the entry of a section whose attempt threw
SectionEntryFailed(section) ==
    [id |-> section.id, title |-> section.title, success |-> FALSE]

\* lines 142-160: the function is called
GenStart ==
    /\ UNCHANGED <<store, fpVars, vqVars, wfVars, csVars, raVars>>
    /\ genPc = "idle"
    /\ \E o \in OutputPaths, files \in FileLists :
          /\ genOptions' = [repositoryPath |-> Resolve(Cwd, <<"hono">>),
                            outputPath |-> o,
                            processedFiles |-> OrElse(files, << >>)]
          /\ genResults' =
                [success |-> TRUE,
                 message |-> Msg("generated sections", <<Len(StandardSectionIds)>>),
                 outputPath |-> FinalOutputPath(o, Resolve(Cwd, <<"hono">>)),
                 sections |-> << >>]
    /\ genI' = 0
    /\ genPc' = "generate"
    /\ UNCHANGED genLog

\* Mutant: the first failing section ends the loop.
GenCatchStops(section, errMessage) ==
    /\ genResults' = [genResults EXCEPT
                         !.sections = Append(@, SectionEntryFailed(section)),
                         !.success = FALSE,
                         !.message = Msg("some sections failed", <<errMessage>>)]
    /\ genLog' = Append(genLog, [id |-> section.id, threw |-> TRUE,
                                  error |-> errMessage])
    /\ genI' = genI + 1
    /\ genPc' = "done"

\* lines 214-223 and the loop's i++: the catch of a section's try
GenCatch(section, errMessage) ==
    /\ genResults' = [genResults EXCEPT
                         !.sections = Append(@, SectionEntryFailed(section)),
                         !.success = FALSE,
                         !.message = Msg("some sections failed", <<errMessage>>)]
    /\ genLog' = Append(genLog, [id |-> section.id, threw |-> TRUE,
                                  error |-> errMessage])
    /\ genI' = genI + 1
    /\ genPc' = IF genI + 1 < Len(StandardSectionIds) THEN "generate" ELSE "done"

\* lines 166-178: await agent.generate(section.prompt, ...)
GenGenerate ==
    /\ UNCHANGED <<store, fpVars, vqVars, wfVars, csVars, raVars>>
    /\ genPc = "generate"
    /\ LET section == GetStandardSections(genOptions)[genI + 1]
       IN  \/ /\ genPc' = "save"
              /\ UNCHANGED <<genResults, genLog, genI>>
           \/ \E e \in GenerateErrors : GenCatch(section, e)
    /\ UNCHANGED genOptions

\* lines 181-207: await agent.generate(save request), the entry pushed
GenSave ==
    /\ UNCHANGED <<store, fpVars, vqVars, wfVars, csVars, raVars>>
    /\ genPc = "save"
    /\ LET section == GetStandardSections(genOptions)[genI + 1]
       IN  \/ \E saveResult \in SaveObjects :
                /\ genResults' = [genResults EXCEPT !.sections =
                                     Append(@, SectionEntrySaved(section, saveResult))]
                /\ genLog' = Append(genLog, [id |-> section.id, threw |-> FALSE,
                                             saved |-> saveResult.success])
                /\ genI' = genI + 1
                /\ genPc' = IF genI + 1 < Len(StandardSectionIds)
                            THEN "generate" ELSE "done"
           \/ \E e \in SaveErrors : GenCatch(section, e)
    /\ UNCHANGED genOptions

GenIdle ==
    /\ genPc = "idle"
    /\ genOptions = Null
    /\ genI = 0
    /\ genResults = Null
    /\ genLog = << >>

\* ----------------------------------------------------- readmeAnalyzerTool
\* (src/mastra/tools/analysis/readmeAnalyzer.ts)

\* lines 62-69: the candidate names, in the order they are tried
ReadmeVariants ==
    <<"README.md", "Readme.md", "readme.md", "README", "README.markdown",
      "README.txt">>

Variants == {ReadmeVariants[k] : k \in 1..Len(ReadmeVariants)}

\* What the repository can hold at a name: nothing, a directory, an empty
\* file, a file with text, a file that cannot be read.
EntryKinds == {"absent", "directory", "empty file", "file", "unreadable file"}

IsFile(kind) == kind \in {"empty file", "file", "unreadable file"}

\* fs.readFile(filePath, "utf-8") of a file that can be read
ReadmeText(repo, variant) ==
    IF repo[variant] = "empty file" THEN << >> ELSE <<"text of", variant>>

\* What extractMetadataWithAI returns (lines 118-206): the defaults, or the
\* defaults merged with what the model extracted; it never throws.
ReadmeMetadatas ==
    {[title |-> "", technologies |-> << >>],
     [title |-> "hono", technologies |-> <<"TypeScript">>]}

\* lines 91-94
RaResultNotFound ==
    [success |-> FALSE, message |-> Msg("README not found", << >>)]

\* lines 100-105
RaResultFound(path, content, md) ==
    [success |-> TRUE,
     message |-> Msg("README analysed", <<path>>),
     content |-> content,
     metadata |-> md]

\* The agent calls the tool: lines 57-73.
RaStart ==
    /\ UNCHANGED <<store, fpVars, vqVars, wfVars, csVars, genVars>>
    /\ raPc = "idle"
    /\ raPc' = "stat"
    /\ raIdx' = 1
    /\ readmeContent' = << >>
    /\ readmePath' = << >>
    /\ UNCHANGED <<raRepo, raResult, raCalls>>

\* lines 75, 86-95: the loop goes to the next variant; when there is none
\* the content found decides between "not found" and the extraction.
RaNextVariant ==
    IF raIdx < Len(ReadmeVariants)
    THEN /\ raIdx' = raIdx + 1
         /\ raPc' = "stat"
         /\ UNCHANGED raResult
    ELSE /\ raResult' = RaResultNotFound
         /\ raPc' = "done"
         /\ UNCHANGED raIdx

\* lines 76-79: await fs.stat(filePath), stat.isFile()
RaStat ==
    /\ UNCHANGED <<store, fpVars, vqVars, wfVars, csVars, genVars>>
    /\ raPc = "stat"
    /\ LET variant == ReadmeVariants[raIdx]
           kind == raRepo[variant]
       IN  /\ raCalls' = Append(raCalls, [op |-> "stat", variant |-> variant,
                                          ok |-> kind # "absent"])
           /\ IF IsFile(kind)
              THEN raPc' = "readFile" /\ UNCHANGED <<raIdx, raResult>>
              ELSE RaNextVariant
    /\ UNCHANGED <<raRepo, readmeContent, readmePath>>

\* Mutant: the loop has no break and goes on after a file has been read.
RaReadFileKeepsSearching ==
    /\ UNCHANGED <<store, fpVars, vqVars, wfVars, csVars, genVars>>
    /\ raPc = "readFile"
    /\ LET variant == ReadmeVariants[raIdx]
       IN  /\ raCalls' = Append(raCalls, [op |-> "readFile", variant |-> variant,
                                          ok |-> raRepo[variant] # "unreadable file"])
           /\ IF raRepo[variant] = "unreadable file"
              THEN UNCHANGED <<readmeContent, readmePath>>
              ELSE /\ readmeContent' = ReadmeText(raRepo, variant)
                   /\ readmePath' = <<"repo", variant>>
           /\ IF raIdx < Len(ReadmeVariants)
              THEN raIdx' = raIdx + 1 /\ raPc' = "stat" /\ UNCHANGED raResult
              ELSE IF readmeContent' = << >>
              THEN raResult' = RaResultNotFound /\ raPc' = "done" /\ UNCHANGED raIdx
              ELSE raPc' = "extract" /\ UNCHANGED <<raIdx, raResult>>
    /\ UNCHANGED raRepo

\* lines 80-95: await fs.readFile(filePath, "utf-8"); a rejection is caught
\* like one of fs.stat and the loop continues; after a read the loop breaks
\* and the content is tested.
RaReadFile ==
    /\ UNCHANGED <<store, fpVars, vqVars, wfVars, csVars, genVars>>
    /\ raPc = "readFile"
    /\ LET variant == ReadmeVariants[raIdx]
       IN  IF raRepo[variant] = "unreadable file"
           THEN /\ raCalls' = Append(raCalls, [op |-> "readFile",
                                               variant |-> variant, ok |-> FALSE])
                /\ RaNextVariant
                /\ UNCHANGED <<readmeContent, readmePath>>
           ELSE /\ raCalls' = Append(raCalls, [op |-> "readFile",
                                               variant |-> variant, ok |-> TRUE])
                /\ readmeContent' = ReadmeText(raRepo, variant)
                /\ readmePath' = <<"repo", variant>>
                /\ UNCHANGED raIdx
                /\ IF ReadmeText(raRepo, variant) = << >>
                   THEN raResult' = RaResultNotFound /\ raPc' = "done"
                   ELSE raPc' = "extract" /\ UNCHANGED raResult
    /\ UNCHANGED raRepo

\* lines 98-105: await extractMetadataWithAI(readmeContent)
RaExtract ==
    /\ UNCHANGED <<store, fpVars, vqVars, wfVars, csVars, genVars>>
    /\ raPc = "extract"
    /\ \E md \in ReadmeMetadatas :
          raResult' = RaResultFound(readmePath, readmeContent, md)
    /\ raPc' = "done"
    /\ UNCHANGED <<raRepo, raIdx, readmeContent, readmePath, raCalls>>

RaIdle ==
    /\ raPc = "idle"
    /\ raIdx = 1
    /\ readmeContent = << >>
    /\ readmePath = << >>
    /\ raResult = Null
    /\ raCalls = << >>

\* ------------------------------------------------------- specifications

NoIndexes == [n \in AllIndexNames |-> NoIndex]

\* The records fileProcessorTool stores for the first k chunks of a file.
SeedRecords(st, name, path, k) ==
    LET ctx == [filePath |-> path, indexName |-> name]
        cs == [j \in 1..k |-> ChunkOf(FileSystem[path].content, j)]
    IN  Upsert(CreateIndex(st, name, IndexDimension), name,
               Map(LAMBDA c : Embedding(c.text), cs),
               Map(LAMBDA c : MetadataOf(ctx, FileTypeOf(path), c), cs))

\* Databases earlier fileProcessorTool runs leave behind.
StoreSeeds ==
    {NoIndexes,
     CreateIndex(NoIndexes, "hono_index", IndexDimension),
     SeedRecords(NoIndexes, "hono_index", "README.md", 3),
     SeedRecords(SeedRecords(NoIndexes, "hono_index", "README.md", 1),
                 "docs", "main.ts", DefaultTopK + 2)}

FpIdle ==
    /\ fpPc = "idle"
    /\ fpCtx = Null
    /\ fileType = "text"
    /\ chunks = << >>
    /\ allEmbeddings = << >>
    /\ metadata = << >>
    /\ loopI = 0
    /\ fpResult = Null
    /\ fpCalls = << >>
    /\ fpRuns = 0
    /\ runEmbedCalls = 0
    /\ firstEmbedFailed = FALSE
    /\ embedFailureClasses = {}
    /\ ingested = << >>

VqIdle ==
    /\ vqPc = "idle"
    /\ vqCtx = Null
    /\ vqEmbedding = Undefined
    /\ vqResult = Null
    /\ vqCalls = << >>
    /\ vqRuns = 0
    /\ vqEmbedFailureClasses = {}

\* The other tools have not been called.
ToolsIdle ==
    /\ CsIdle
    /\ GenIdle
    /\ RaIdle
    /\ raRepo = [v \in Variants |-> "absent"]
    /\ csFiles = [o \in SavePaths |-> None]

\* The agent ingests files into a fresh database.
Init ==
    /\ store = NoIndexes
    /\ FpIdle
    /\ VqIdle
    /\ WfIdle
    /\ ToolsIdle
    /\ wfDirs = {}

Next ==
    \/ FpStart
    \/ FpAccess
    \/ FpReadFile
    \/ FpChunk
    \/ FpCreateIndex
    \/ FpEmbedBatch
    \/ FpUpsertBatch

Spec == Init /\ [][Next]_vars

\* The agent queries a database earlier runs have filled.
InitQuery ==
    /\ store \in StoreSeeds
    /\ FpIdle
    /\ VqIdle
    /\ WfIdle
    /\ ToolsIdle
    /\ wfDirs = {}

NextQuery ==
    \/ VqStart
    \/ VqOpen
    \/ VqEmbed
    \/ VqQuery

SpecQuery == InitQuery /\ [][NextQuery]_vars

\* The workflow runs once, in a working directory that may hold earlier clones.
InitWorkflow ==
    /\ store = NoIndexes
    /\ FpIdle
    /\ VqIdle
    /\ WfIdle
    /\ ToolsIdle
    /\ wfDirs \in {{}, {Resolve(Cwd, <<"hono">>)}}

NextWorkflow ==
    \/ WfStart
    \/ WfClone
    \/ WfAnalyze
    \/ WfIdentify
    \/ WfProcess
    \/ WfGenerate

SpecWorkflow == InitWorkflow /\ [][NextWorkflow]_vars

\* The files of a small repository, as a re-run ingests them again.
RerunPaths == {"main.ts"}

\* The orchestrator is run again with the same inputs: the repository is
\* cloned into a working directory that may hold it already, and its files
\* are ingested with the strategy of their format into the same database.
NextRerun ==
    \/ CloneCall
    \/ FpStart /\ fpCtx'.filePath \in RerunPaths /\ fpCtx'.strategy = "markdown"
    \/ FpAccess
    \/ FpReadFile
    \/ FpChunk
    \/ FpCreateIndex
    \/ FpEmbedBatch
    \/ FpUpsertBatch

SpecRerun == InitWorkflow /\ [][NextRerun]_vars

\* The agent saves a cheatsheet in sections, into a directory that may hold
\* an older cheatsheet.
InitSave ==
    /\ store = NoIndexes
    /\ FpIdle
    /\ VqIdle
    /\ WfIdle
    /\ wfDirs = {}
    /\ CsIdle
    /\ GenIdle
    /\ RaIdle
    /\ raRepo = [v \in Variants |-> "absent"]
    /\ csFiles \in [SavePaths -> {None, Some(<<"old rules">>)}]

NextSave == SaveCall

SpecSave == InitSave /\ [][NextSave]_vars

\* A cheatsheet is generated section by section.
NextGenerate ==
    \/ GenStart
    \/ GenGenerate
    \/ GenSave

SpecGenerate == Init /\ [][NextGenerate]_vars

\* The README of a cloned repository is analysed.
InitReadme ==
    /\ store = NoIndexes
    /\ FpIdle
    /\ VqIdle
    /\ WfIdle
    /\ wfDirs = {}
    /\ CsIdle
    /\ csFiles = [o \in SavePaths |-> None]
    /\ GenIdle
    /\ RaIdle
    /\ raRepo \in [Variants -> EntryKinds]

NextReadme ==
    \/ RaStart
    \/ RaStat
    \/ RaReadFile
    \/ RaExtract

SpecReadme == InitReadme /\ [][NextReadme]_vars

\* ================================================================ claims

CeilDiv(a, b) == (a + b - 1) \div b

\* The embedMany calls the current execute has issued, in order.
EmbedCalls == SelectSeq(fpCalls, LAMBDA c : c.op = "embedMany")

\* The upsert calls the current execute has issued, in order.
UpsertCalls == SelectSeq(fpCalls, LAMBDA c : c.op = "upsert")

LastCall == fpCalls[Len(fpCalls)]

\* execute has returned after a failed call of the given library operation.
ReturnedAfterFailed(op) ==
    /\ fpPc = "done"
    /\ Len(fpCalls) > 0
    /\ LastCall.op = op
    /\ ~LastCall.ok

\* The chunk texts a result carries.  (The output schema's fields are
\* success, message, filePath, strategy, chunkCount, fileType and metadata.)
ResultTexts(r) ==
    IF "chunks" \in DOMAIN r THEN [k \in 1..Len(r.chunks) |-> r.chunks[k].text]
    ELSE << >>

\* The numbers a result carries in its fields.
ResultNumbers(r) ==
    (IF "chunkCount" \in DOMAIN r THEN {r.chunkCount} ELSE {})
    \cup (IF "metadata" \in DOMAIN r
          THEN {r.metadata.totalChunks, r.metadata.averageChunkLength} ELSE {})

\* C1 (as claimed): when chunking produced n >= 1 chunks and an embedding
\* call then fails, the returned result keeps the chunk count n and the text
\* of the n chunks, so that embedding can be retried from the result alone.
C1_EmbedFailureKeepsCountAndText ==
    ReturnedAfterFailed("embedMany") =>
        /\ "chunkCount" \in DOMAIN fpResult
        /\ fpResult.chunkCount = Len(chunks)
        /\ ResultTexts(fpResult) = [k \in 1..Len(chunks) |-> chunks[k].text]

\* C2 (as claimed): when every embedding sub-batch succeeded and an upsert
\* call fails, the result is of another class (fields, success flag, fixed
\* message text) than every result returned after a failed embedding call.
C2_UpsertFailureDistinctFromEmbedFailure ==
    ReturnedAfterFailed("upsert") =>
        ResultClass(fpResult) \notin embedFailureClasses

\* C3 (as claimed): when the clone stage returns success = false, the
\* workflow halts there: no later stage is carried out, so none of them
\* returns an output.
C3_FailedCloneHaltsWorkflow ==
    (/\ wfResults["clone-repository"] # Null
     /\ ~wfResults["clone-repository"].success)
    => \A k \in 2..Len(StageOrder) : wfResults[StageOrder[k]] = Null

\* C4 (as claimed): a store query that fails because the index does not
\* exist is reported with a result of another class than every result
\* returned after a failed embedding of the query, and never as a successful
\* empty result.
C4_IndexNotFoundDistinctFromEmbedFailure ==
    (/\ vqPc = "done"
     /\ Len(vqCalls) > 0
     /\ vqCalls[Len(vqCalls)].op = "query"
     /\ ~vqCalls[Len(vqCalls)].ok
     /\ vqCalls[Len(vqCalls)].error = IndexNotFoundError)
    => /\ ResultClass(vqResult) \notin vqEmbedFailureClasses
       /\ ~(vqResult.success /\ vqResult.results = << >>)

\* C5 (as claimed): when the k-th embedMany call of a file with n chunks
\* fails, the result reports the (k-1)*100 chunks embedded and the
\* n - (k-1)*100 chunks not attempted.
C5_EmbedFailureReportsPartialCounts ==
    ReturnedAfterFailed("embedMany") =>
        LET k == Len(EmbedCalls)
            n == Len(chunks)
        IN  {(k - 1) * batchSize, n - (k - 1) * batchSize}
                \subseteq ResultNumbers(fpResult)

\* The embedding loop of the current execute has ended with every call
\* successful (execute is at the upsert loop or has gone through it).
EmbedLoopDone ==
    \/ fpPc = "upsert"
    \/ fpPc = "done" /\ Len(UpsertCalls) > 0

\* C6: when all calls succeed, the embedding loop issues exactly ceil(n/100)
\* embedMany calls, the k-th carrying the texts of chunks (k-1)*100+1 ..
\* min(k*100, n) in order, and allEmbeddings holds n vectors, the i-th being
\* the embedding of the i-th chunk.
C6_EmbedLoopBatches ==
    EmbedLoopDone =>
        LET n == Len(chunks)
        IN  /\ Len(EmbedCalls) = CeilDiv(n, batchSize)
            /\ \A k \in 1..Len(EmbedCalls) :
                  /\ EmbedCalls[k].ok
                  /\ EmbedCalls[k].values =
                        [j \in 1..(Min(k * batchSize, n) - (k - 1) * batchSize) |->
                            chunks[(k - 1) * batchSize + j].text]
            /\ Len(allEmbeddings) = n
            /\ \A i \in 1..n : allEmbeddings[i] = Embedding(chunks[i].text)

\* C6 witness: a file of more than two full batches whose last batch is
\* partial has been embedded in three calls.
C6_Witness ==
    /\ fpPc = "upsert"
    /\ Len(chunks) > 2 * batchSize
    /\ Len(chunks) % batchSize # 0
    /\ Len(EmbedCalls) = 3

\* The place of a library call in the order load, chunk, embed, store.
StageRank(op) ==
    CASE op = "access" -> 1
      [] op = "readFile" -> 1
      [] op = "chunk" -> 2
      [] op = "createIndex" -> 3
      [] op = "embedMany" -> 3
      [] op = "upsert" -> 4

\* The result of a fully stored file.
IsStoredResult(r) == r.success /\ "metadata" \in DOMAIN r

\* C7: the calls of one execute follow the order load, chunk, embed, store;
\* an embedMany call is issued only after chunking has returned the chunks,
\* an upsert call only after every embedding sub-batch of the file has
\* succeeded; execute holds a result exactly when it has ended, and that
\* result is the stored one exactly when the last batch has been upserted.
C7_StagesInOrder ==
    /\ \A a, b \in 1..Len(fpCalls) :
          a < b => StageRank(fpCalls[a].op) <= StageRank(fpCalls[b].op)
    /\ \A k \in 1..Len(fpCalls) :
          fpCalls[k].op = "embedMany" =>
             /\ \E j \in 1..(k - 1) : fpCalls[j].op = "chunk" /\ fpCalls[j].ok
             /\ Len(chunks) >= 1
    /\ \A k \in 1..Len(fpCalls) :
          fpCalls[k].op = "upsert" =>
             /\ \A j \in 1..Len(EmbedCalls) : EmbedCalls[j].ok
             /\ Len(EmbedCalls) = CeilDiv(Len(chunks), batchSize)
             /\ Len(allEmbeddings) = Len(chunks)
    /\ (fpPc = "done") <=> (fpResult # Null)
    /\ fpPc = "done" =>
          (IsStoredResult(fpResult) <=>
              /\ Len(UpsertCalls) = CeilDiv(Len(chunks), batchSize)
              /\ Len(chunks) >= 1
              /\ \A j \in 1..Len(UpsertCalls) : UpsertCalls[j].ok)

\* C7 witness: a file of several batches has gone through every stage.
C7_Witness ==
    /\ fpPc = "done"
    /\ IsStoredResult(fpResult)
    /\ Len(EmbedCalls) >= 2
    /\ Len(UpsertCalls) >= 2

\* The three outcomes of one file's ingestion.
OutcomeStored ==
    /\ Len(fpCalls) > 0
    /\ LastCall.op = "upsert"
    /\ LastCall.ok

OutcomeDegraded ==
    /\ Len(chunks) >= 1
    /\ Len(fpCalls) > 0
    /\ LastCall.op \in {"createIndex", "embedMany", "upsert"}
    /\ ~LastCall.ok

OutcomeFailure == ~OutcomeStored /\ ~OutcomeDegraded

FirstEmbedCallOfRunFailed ==
    /\ ReturnedAfterFailed("embedMany")
    /\ runEmbedCalls = 1

C10_EmbedFailureReturned ==
    (\E k \in 1..Len(vqCalls) : vqCalls[k].op = "embed" /\ ~vqCalls[k].ok) =>
        /\ vqPc = "done"
        /\ vqResult # Null
        /\ ~vqResult.success
        /\ vqResult.results = << >>
        /\ vqResult.message.template = "error in embedding"
        /\ vqResult.message.args[1] \in EmbedErrors
        /\ \A k \in 1..Len(vqCalls) : vqCalls[k].op # "query"

\* C10 witness: the embedding of a query has failed.
C10_Witness ==
    /\ vqPc = "done"
    /\ Len(vqCalls) = 2
    /\ vqCalls[2].op = "embed"
    /\ ~vqCalls[2].ok

\* The last library call of the current vectorQueryTool.execute.
VqLastCall == vqCalls[Len(vqCalls)]

\* The store query of the current execute has returned its records.
VqQueryAnswered ==
    /\ vqPc = "done"
    /\ Len(vqCalls) > 0
    /\ VqLastCall.op = "query"
    /\ VqLastCall.ok

\* C11: when the embedding and the store query both succeed, the result is
\* success = true with results = [] when the store returned no record, and
\* success = true with a non-empty results list exactly when the store
\* returned at least one record: one formatted result per returned record,
\* in the store's order.
C11_EmptyAnswerIsEmptySuccess ==
    /\ VqQueryAnswered =>
          LET returned == VqLastCall.returned
          IN  /\ vqResult.success
              /\ Len(vqResult.results) = Len(returned)
              /\ \A k \in 1..Len(returned) :
                    /\ vqResult.results[k].metadata = returned[k].metadata
                    /\ vqResult.results[k].text = returned[k].metadata.text
                    /\ vqResult.results[k].filePath = returned[k].metadata.filePath
                    /\ vqResult.results[k].fileType = returned[k].metadata.fileType
    /\ (vqPc = "done" /\ vqResult.success /\ vqResult.results # << >>) =>
          /\ VqQueryAnswered
          /\ Len(VqLastCall.returned) >= 1

\* C11 witness: the store has answered a query on an index that holds no
\* record, and execute has returned.
C11_Witness ==
    /\ VqQueryAnswered
    /\ VqLastCall.returned = << >>
    /\ vqResult.success
    /\ vqResult.results = << >>

\* C12 (as claimed): every store query the tool issues carries an explicit
\* result limit and an explicit similarity threshold, and the results the
\* tool returns number at most that limit and each carry a similarity of at
\* least that threshold.
C12_QueryCarriesLimitAndThreshold ==
    \A k \in 1..Len(vqCalls) :
        vqCalls[k].op = "query" =>
            /\ {"topK", "minScore"} \subseteq DOMAIN vqCalls[k].params
            /\ (vqPc = "done" /\ vqCalls[k].ok) =>
                  /\ Len(vqResult.results) <= vqCalls[k].params.topK
                  /\ \A j \in 1..Len(vqResult.results) :
                        /\ vqResult.results[j].similarity # None
                        /\ vqResult.results[j].similarity[1] >= vqCalls[k].params.minScore

\* A fresh, successful clone: the directory did not exist and git succeeded.
FreshClone(run) == ~run.existed /\ run.result.success

\* C13: a call of cloneRepositoryTool that finds its target directory
\* returns success = true and issues no git command, with the
\* repositoryFullPath and cloneDirectoryName an earlier fresh successful
\* clone of the same URL returned; and a createIndex call of
\* fileProcessorTool on an index that exists already succeeds, so that
\* execute goes on to the embedding.
C13_RerunIsSafe ==
    /\ \A j \in 1..Len(cloneRuns) :
          cloneRuns[j].existed =>
             /\ cloneRuns[j].result.success
             /\ cloneRuns[j].git = << >>
             /\ \A i \in 1..(j - 1) :
                   (/\ FreshClone(cloneRuns[i])
                    /\ cloneRuns[i].ctx.repositoryUrl = cloneRuns[j].ctx.repositoryUrl)
                   => /\ cloneRuns[j].result.repositoryFullPath =
                            cloneRuns[i].result.repositoryFullPath
                      /\ cloneRuns[j].result.cloneDirectoryName =
                            cloneRuns[i].result.cloneDirectoryName
    /\ \A k \in 1..Len(fpCalls) :
          (fpCalls[k].op = "createIndex" /\ fpCalls[k].existed) =>
             /\ fpCalls[k].ok
             /\ fpPc = "embed" \/ Len(fpCalls) > k

\* C13 witness: a repository cloned afresh has been cloned again by the same
\* URL, and a second ingestion has been through createIndex on the index the
\* first one created.
C13_Witness ==
    /\ Len(cloneRuns) = 2
    /\ FreshClone(cloneRuns[1])
    /\ cloneRuns[2].existed
    /\ cloneRuns[2].ctx.repositoryUrl = cloneRuns[1].ctx.repositoryUrl
    /\ fpRuns = 2
    /\ \E k \in 1..Len(fpCalls) : fpCalls[k].op = "createIndex" /\ fpCalls[k].existed

\* The errors the library calls of execute throw.
ThrownErrors ==
    ReadErrors \cup ChunkErrors \cup EmbedErrors \cup UpsertErrors
    \cup {"invalid index name"}

\* C14: fileProcessorTool.execute never throws: a failed file access, file
\* read, chunking, index creation, embedding or upsert ends execute with a
\* returned result that carries filePath, strategy and, in message, the
\* reason (the missing file's path or the message of the error thrown), and
\* the tool then takes the next file.
C14_FailuresAreReturned ==
    \A k \in 1..Len(fpCalls) :
        ~fpCalls[k].ok =>
            /\ k = Len(fpCalls)
            /\ fpPc = "done"
            /\ fpResult # Null
            /\ {"filePath", "strategy", "message"} \subseteq DOMAIN fpResult
            /\ fpResult.filePath = fpCtx.filePath
            /\ fpResult.strategy = fpCtx.strategy
            /\ IF fpCalls[k].op = "access"
               THEN fpResult.message = Msg("file not found", <<fpCtx.filePath>>)
               ELSE \E e \in ThrownErrors :
                       e = fpResult.message.args[Len(fpResult.message.args)]
            /\ fpRuns < MaxRuns => ENABLED FpStart

\* C14 witness: reading a file that exists has failed, and execute has
\* returned with files left to process.
C14_Witness ==
    /\ ReturnedAfterFailed("readFile")
    /\ fpResult.filePath = "locked.md"
    /\ fpRuns < MaxRuns

\* The structured part of a result: its fields and its success flag.
OutcomeShape(r) == [fields |-> DOMAIN r, success |-> r.success]

\* The error outcomes: a missing file, an exception while processing.
ErrorShapes ==
    {OutcomeShape(ResultNotFound(fpCtx))}
    \cup {OutcomeShape(ResultProcessingError(fpCtx, e)) : e \in ThrownErrors}

\* execute has returned because the file is empty or gave no chunk.
NoContentReturned ==
    /\ fpPc = "done"
    /\ Len(fpCalls) > 0
    /\ LastCall.ok
    /\ \/ LastCall.op = "readFile"
       \/ LastCall.op = "chunk" /\ Len(chunks) = 0

\* C15 (as claimed): an empty file, or one that yields no chunk, is reported
\* as a "no content" condition of its own and not as an error: the result
\* does not have the fields and success flag of the error outcome returned
\* for a missing file or a processing exception.
C15_NoContentIsNotAnError ==
    NoContentReturned => OutcomeShape(fpResult) \notin ErrorShapes

\* The precondition of chunking as the specification states it.
ValidConfiguration(ctx) == ctx.overlap < ctx.chunkSize

\* C16 (as claimed): a call whose overlap is not below its chunk size is
\* rejected before any work starts: execute issues no file access or read,
\* no chunking, no createIndex, no embedding call and no upsert for it.
C16_InvalidConfigurationRejected ==
    (fpCtx # Null /\ ~ValidConfiguration(fpCtx)) =>
        fpCalls = << >>

\* C17 (as claimed): the strategy a file is chunked with is determined by
\* the file's format tag and not by the caller: the strategy execute has
\* passed to doc.chunk is the one it passes for the same file when the
\* caller supplies any other strategy value.
C17_StrategyFollowsFormatTag ==
    \A k \in 1..Len(fpCalls) :
        fpCalls[k].op = "chunk" =>
            \A other \in Strategies :
                ChunkStrategy([fpCtx EXCEPT !.strategy = other], fileType)
                    = fpCalls[k].strategy

\* execute is about to look for a file that is missing or inaccessible.
AtMissingFile == fpPc = "access" /\ ~FileSystem[fpCtx.filePath].exists

\* C18: when the file at filePath is missing or inaccessible, the step that
\* finds it so ends execute with a failure result (success = false, the
\* file's path) after the file access alone: nothing is chunked, no
\* createIndex, embedding or upsert call is made, and the vector store is
\* the one execute found.
C18_MissingFileIsPerItemFailure ==
    [][AtMissingFile =>
          /\ fpPc' = "done"
          /\ ~fpResult'.success
          /\ fpResult'.filePath = fpCtx.filePath
          /\ fpCalls' = <<[op |-> "access", ok |-> FALSE]>>
          /\ chunks' = << >>
          /\ allEmbeddings' = << >>
          /\ store' = store
          /\ ingested' = ingested]_vars

\* C18 witness: execute has returned for a missing file while the store
\* holds the records of an earlier file.
C18_Witness ==
    /\ ReturnedAfterFailed("access")
    /\ fpResult.filePath = "gone.ts"
    /\ \E n \in IndexNames : IndexExists(store, n) /\ Len(store[n].records) > 0

\* The number of records an index holds for a file.
RecordCount(name, path) ==
    Cardinality({k \in 1..Len(store[name].records) :
                    store[name].records[k].metadata.filePath = path})

\* The executes that have upserted records of a file into an index.
IngestionsOf(name, path) ==
    {k \in 1..Len(ingested) :
        ingested[k].filePath = path /\ ingested[k].indexName = name}

\* An execute that has upserted every chunk of its file.
FullyStored(run) == run.upserted = run.chunkCount

\* C19: repeated ingestion is not deduplicated: when the k executes that
\* have upserted records of a file into an index were all fully successful
\* with n chunks each, the index holds k*n records for that file (none when
\* no execute has upserted any).
C19_RepeatedIngestionAddsRecords ==
    \A name \in IndexNames, path \in Paths :
        LET runs == IngestionsOf(name, path)
        IN  (/\ IndexExists(store, name)
             /\ \A k \in runs : FullyStored(ingested[k])
             /\ \A j, k \in runs : ingested[j].chunkCount = ingested[k].chunkCount)
            => RecordCount(name, path) =
                  IF runs = {} THEN 0
                  ELSE Cardinality(runs) * ingested[CHOOSE k \in runs : TRUE].chunkCount

\* C19 witness: the same file of a full batch or more has been ingested
\* twice into the same index, both times in full.
C19_Witness ==
    /\ fpPc = "done"
    /\ Len(ingested) = 2
    /\ ingested[1].filePath = ingested[2].filePath
    /\ ingested[1].indexName = ingested[2].indexName
    /\ ingested[1].chunkCount = ingested[2].chunkCount
    /\ ingested[1].chunkCount >= batchSize
    /\ FullyStored(ingested[1])
    /\ FullyStored(ingested[2])
    /\ RecordCount(ingested[1].indexName, ingested[1].filePath)
          = 2 * ingested[1].chunkCount

\* C20: the stages whose execute has been invoked are, in order, the first
\* stages of clone-repository, analyze-repository, identify-important-files,
\* process-files, generate-cursor-rules (so each has run at most once); a
\* stage is invoked only when the stage before it has returned its output;
\* and the outputs a stage reads are those of the trigger and of stages that
\* returned before it was invoked.
C20_StagesRunInFixedOrder ==
    LET order == <<"clone-repository", "analyze-repository",
                   "identify-important-files", "process-files",
                   "generate-cursor-rules">>
        position(id) == CHOOSE k \in 1..Len(order) : order[k] = id
    IN  /\ Len(wfExecuted) <= Len(order)
        /\ \A k \in 1..Len(wfExecuted) :
              /\ wfExecuted[k] = order[k]
              /\ wfTrigger # Null
              /\ k > 1 => wfResults[order[k - 1]] # Null
              /\ \A r \in StageReads(wfExecuted[k]) :
                    /\ position(r) < k
                    /\ wfResults[r] # Null
        /\ \A k \in 1..Len(order) :
              wfResults[order[k]] # Null => Len(wfExecuted) >= k
        /\ wfPc = "completed" => wfExecuted = order

\* C20 witness: a run has completed after its five stages.
C20_Witness ==
    /\ wfPc = "completed"
    /\ Len(wfExecuted) = 5
    /\ wfResults["generate-cursor-rules"] # Null

\* C23: a failed embedMany call is the last library call of its execute:
\* no embedMany call for a later sub-batch follows, the failed sub-batch is
\* not sent again, no upsert call is issued, and execute has returned.
C23_EmbedFailureAbortsFile ==
    \A k \in 1..Len(fpCalls) :
        (fpCalls[k].op = "embedMany" /\ ~fpCalls[k].ok) =>
            /\ \A j \in (k + 1)..Len(fpCalls) :
                  fpCalls[j].op \notin {"embedMany", "upsert"}
            /\ \A j \in 1..Len(fpCalls) :
                  (j # k /\ fpCalls[j].op = "embedMany") =>
                      fpCalls[j].values # fpCalls[k].values
            /\ UpsertCalls = << >>
            /\ fpPc = "done"
            /\ loopI = (Len(EmbedCalls) - 1) * batchSize

\* C23 witness: the second of three sub-batches has failed.
C23_Witness ==
    /\ ReturnedAfterFailed("embedMany")
    /\ Len(EmbedCalls) = 2
    /\ Len(chunks) > 2 * batchSize

\* C24: every upsert call passes as many metadata entries as vectors, at
\* most 100, the i-th vector being the embedding of the text in the i-th
\* metadata entry; the j-th call of an execute carries the chunks
\* (j-1)*100+1 .. min(j*100, n) in chunk order, so that the calls of a fully
\* stored file cover chunks 1..n, each exactly once.
C24_UpsertPairsVectorsWithChunks ==
    LET n == Len(chunks)
    IN  /\ \A j \in 1..Len(UpsertCalls) :
              LET call == UpsertCalls[j]
                  first == (j - 1) * batchSize
              IN  /\ Len(call.vectors) = Len(call.metadata)
                  /\ Len(call.vectors) <= 100
                  /\ Len(call.vectors) = Min(j * batchSize, n) - first
                  /\ \A i \in 1..Len(call.vectors) :
                        /\ call.vectors[i] = Embedding(call.metadata[i].text)
                        /\ call.metadata[i].text = chunks[first + i].text
        /\ (fpPc = "done" /\ IsStoredResult(fpResult)) =>
              Len(UpsertCalls) * batchSize >= n

\* C24 witness: the last, partial batch of a file of three batches has been
\* upserted.
C24_Witness ==
    /\ Len(UpsertCalls) = 3
    /\ UpsertCalls[3].ok
    /\ Len(UpsertCalls[3].vectors) < batchSize
    /\ fpPc = "done"

\* C25: an embedMany or upsert call of an execute is preceded by a
\* successful createIndex call of that execute for its index name with
\* dimension 768, after which the index exists; a failed createIndex is the
\* last call of its execute; and every index in the store has dimension 768.
C25_IndexCreatedBeforeUse ==
    /\ \A k \in 1..Len(fpCalls) :
          fpCalls[k].op \in {"embedMany", "upsert"} =>
             /\ \E j \in 1..(k - 1) :
                   /\ fpCalls[j].op = "createIndex"
                   /\ fpCalls[j].ok
                   /\ fpCalls[j].indexName = fpCtx.indexName
                   /\ fpCalls[j].dimension = 768
             /\ IndexExists(store, fpCtx.indexName)
    /\ \A k \in 1..Len(fpCalls) :
          (fpCalls[k].op = "createIndex" /\ ~fpCalls[k].ok) =>
             /\ k = Len(fpCalls)
             /\ EmbedCalls = << >>
             /\ UpsertCalls = << >>
    /\ \A name \in AllIndexNames :
          IndexExists(store, name) => store[name].dimension = 768

\* C25 witness: an execute has created its index and upserted into it, and
\* a later execute has failed at createIndex.
C25_Witness ==
    /\ ReturnedAfterFailed("createIndex")
    /\ \E name \in IndexNames :
          IndexExists(store, name) /\ Len(store[name].records) > 0

\* The number of upsert calls of the current execute that succeeded.
UpsertsDone == Len(SelectSeq(UpsertCalls, LAMBDA c : c.ok))

\* The records the store holds at the end of an index, m of them.
LastRecords(name, m) ==
    SubSeq(store[name].records, Len(store[name].records) - m + 1,
           Len(store[name].records))

\* C26: storage of a file is not all-or-nothing: the records an execute has
\* stored are those of the first m chunks of its file, in order, where m is
\* 100 times the number of upsert calls that succeeded, or n when the last
\* batch is in; when the k-th upsert call fails the records of the batches
\* before it stay in the index, no later batch is attempted and the result
\* is success = true with chunkCount = n; a fully stored result means m = n.
C26_PartialStorageRemains ==
    /\ \A k \in 1..Len(ingested) :
          /\ ingested[k].upserted <= ingested[k].chunkCount
          /\ \/ ingested[k].upserted % 100 = 0
             \/ ingested[k].upserted = ingested[k].chunkCount
    /\ UpsertsDone > 0 =>
          LET n == Len(chunks)
              m == Min(UpsertsDone * 100, n)
          IN  /\ ingested[Len(ingested)].upserted = m
              /\ LastRecords(fpCtx.indexName, m) =
                    [i \in 1..m |->
                        [vector |-> Embedding(chunks[i].text),
                         metadata |-> MetadataOf(fpCtx, fileType, chunks[i])]]
              /\ (fpPc = "done" /\ IsStoredResult(fpResult)) => m = n
    /\ ReturnedAfterFailed("upsert") =>
          /\ UpsertsDone = Len(UpsertCalls) - 1
          /\ fpResult.success
          /\ fpResult.chunkCount = Len(chunks)

\* C26 witness: the third upsert call of a file has failed and the 200
\* records of the first two batches are in the index.
C26_Witness ==
    /\ ReturnedAfterFailed("upsert")
    /\ Len(UpsertCalls) = 3
    /\ Len(store[fpCtx.indexName].records) >= 200
    /\ fpResult.success

RECURSIVE Concat(_)
\* The concatenation of a sequence of texts.
Concat(texts) ==
    IF texts = << >> THEN << >> ELSE Head(texts) \o Concat(Tail(texts))

\* The calls of saveCheatsheetTool for one output path, in call order.
SavesTo(path) == SelectSeq(csCalls, LAMBDA c : c.ctx.outputPath = path)

\* The calls for a path are as the agent is instructed: the first with
\* append = false, every later one with append = true, all successful.
SavedInSections(path) ==
    LET calls == SavesTo(path)
    IN  /\ calls # << >>
        /\ ~calls[1].ctx.append
        /\ \A k \in 2..Len(calls) : calls[k].ctx.append
        /\ \A k \in 1..Len(calls) : calls[k].result.success

\* C22: after a cheatsheet has been saved in sections as instructed, the
\* file holds exactly the texts the calls wrote, concatenated in call
\* order: nothing of what the file held before the first call is left, and
\* every later call found the earlier texts and left them in place.
C22_SectionsAreConcatenated ==
    \A path \in SavePaths :
        SavedInSections(path) =>
            LET calls == SavesTo(path)
            IN  /\ csFiles[path] =
                      Some(Concat([k \in 1..Len(calls) |-> calls[k].written]))
                /\ \A k \in 2..Len(calls) :
                      calls[k].before =
                          Some(Concat([j \in 1..(k - 1) |-> calls[j].written]))
                /\ calls[Len(calls)].result.contentLength = Len(csFiles[path][1])

\* C22 witness: three sections have been saved as instructed over an older
\* cheatsheet.
C22_Witness ==
    /\ Len(csCalls) = 3
    /\ SavedInSections("rules.mdc")
    /\ Len(SavesTo("rules.mdc")) = 3
    /\ csCalls[1].before = Some(<<"old rules">>)
    /\ csCalls[2].ctx.content # csCalls[3].ctx.content

\* The attempts that threw, in order.
FailedAttempts == SelectSeq(genLog, LAMBDA a : a.threw)

\* C27: every standard section is attempted exactly once, in definition
\* order, also after failures: the sections list has one entry per attempt
\* made, in that order, and seven entries when the function returns;
\* success is true exactly when no attempt threw; and after failures the
\* message carries the error of the last failing section.
C27_EverySectionAttemptedOnce ==
    LET ids == <<"project-overview", "project-structure", "important-elements",
                 "coding-conventions", "design-patterns", "best-practices",
                 "summary">>
    IN  genPc # "idle" =>
          /\ Len(genLog) = genI
          /\ Len(genResults.sections) = genI
          /\ genI <= 7
          /\ \A k \in 1..genI :
                /\ genLog[k].id = ids[k]
                /\ genResults.sections[k].id = ids[k]
                /\ genResults.sections[k].success = ~genLog[k].threw
          /\ genPc = "done" <=> genI = 7
          /\ genResults.success <=> FailedAttempts = << >>
          /\ FailedAttempts # << >> =>
                genResults.message.args =
                    <<FailedAttempts[Len(FailedAttempts)].error>>

\* C27 witness: the function has returned after two sections failed with
\* different errors and a later section succeeded.
C27_Witness ==
    /\ genPc = "done"
    /\ Len(FailedAttempts) = 2
    /\ FailedAttempts[1].error # FailedAttempts[2].error
    /\ ~genLog[7].threw

\* C28: a section whose two agent.generate calls returned is recorded with
\* success = true whatever the success field of the save result, and the
\* step that records it leaves the overall success and message as they were.
C28_SaveFailureIsNotASectionFailure ==
    /\ [](genPc # "idle" =>
            \A k \in 1..Len(genLog) :
                ~genLog[k].threw => genResults.sections[k].success)
    /\ [][(genPc = "save" /\ genPc' # "save" /\ ~genLog'[Len(genLog')].threw) =>
              /\ genResults'.success = genResults.success
              /\ genResults'.message = genResults.message]_vars

\* C28 witness: the save result of a section had success = false, no attempt
\* threw, and the function has returned success = true.
C28_Witness ==
    /\ genPc = "done"
    /\ FailedAttempts = << >>
    /\ \E k \in 1..Len(genLog) : ~genLog[k].saved
    /\ genResults.success
    /\ \A k \in 1..Len(genLog) : genResults.sections[k].success


\* The position of a name in the order the tool tries the names.
VariantIndex(variant) ==
    CHOOSE k \in 1..Len(ReadmeVariants) : ReadmeVariants[k] = variant

\* The first position, in that order, whose entry is of one of the kinds
\* (0 when there is none).
FirstOfKinds(kinds) ==
    LET found == {k \in 1..Len(ReadmeVariants) : raRepo[ReadmeVariants[k]] \in kinds}
    IN  IF found = {} THEN 0
        ELSE CHOOSE k \in found : \A j \in found : k <= j

\* The tool selects position k: it tries every name up to k and none after
\* it, an empty file there gives "README not found", and a success carries
\* the content of the file there.
ReadmeDecidedAt(k) ==
    k # 0 =>
      /\ \A c \in 1..Len(raCalls) : VariantIndex(raCalls[c].variant) <= k
      /\ raPc = "done" =>
            /\ \A j \in 1..k : \E c \in 1..Len(raCalls) :
                  /\ raCalls[c].op = "stat"
                  /\ raCalls[c].variant = ReadmeVariants[j]
            /\ raRepo[ReadmeVariants[k]] = "empty file" =>
                  /\ raResult.success = FALSE
                  /\ raResult.message = Msg("README not found", << >>)
            /\ raResult.success =>
                  raResult.content = <<"text of", ReadmeVariants[k]>>

\* C29 (as stated): readmeAnalyzerTool selects the first name, in the order
\* README.md, Readme.md, readme.md, README, README.markdown, README.txt, that
\* is a regular file and stops searching there; an empty file there gives
\* success = false ("README not found") even when a later variant has
\* content, and success = true carries only the content of that file.
C29_FirstRegularFileDecides ==
    ReadmeDecidedAt(FirstOfKinds({"empty file", "file", "unreadable file"}))

\* C29 (amended): readmeAnalyzerTool selects the first name, in the order
\* README.md, Readme.md, readme.md, README, README.markdown, README.txt, that
\* is a regular file whose content can be read, and stops searching there; an
\* empty file there gives success = false ("README not found") even when a
\* later variant has content, and success = true carries only the content of
\* that file.
C29_FirstReadableFileDecides ==
    ReadmeDecidedAt(FirstOfKinds({"empty file", "file"}))

\* The first name is a file that cannot be read, the next regular file is
\* empty, a later variant has content, and the tool has answered.
C29_Witness ==
    /\ raPc = "done"
    /\ raRepo["README.md"] = "unreadable file"
    /\ FirstOfKinds({"empty file", "file"}) > 1
    /\ raRepo[ReadmeVariants[FirstOfKinds({"empty file", "file"})]] = "empty file"
    /\ \E j \in 1..Len(ReadmeVariants) :
          /\ j > FirstOfKinds({"empty file", "file"})
          /\ raRepo[ReadmeVariants[j]] = "file"
    /\ raResult.success = FALSE

\* The entries of languageSummary in the analyze-repository stage's output
\* (none when tokeiStats or languageSummary is absent).
AnalyzedEntries ==
    LET tokeiStats == wfResults["analyze-repository"].tokeiStats
    IN  IF "languageSummary" \in DOMAIN tokeiStats
        THEN tokeiStats.languageSummary ELSE << >>

\* C30: the analyze-repository stage's mainLanguage is the first language,
\* in the iteration order of tokeiStats.languageSummary, whose code count is
\* strictly greater than that of every language before it and is the maximum
\* overall; it is the empty string when languageSummary is absent, empty or
\* has only code counts of 0; and the stage's success is true whatever
\* success flag the agent's analysis carried.
C30_MainLanguageIsFirstMaximum ==
    wfResults["analyze-repository"] # Null =>
      LET out == wfResults["analyze-repository"]
          ls == AnalyzedEntries
      IN  /\ out.success = TRUE
          /\ IF \A k \in 1..Len(ls) : ls[k][2] = 0
             THEN out.mainLanguage = ""
             ELSE \E k \in 1..Len(ls) :
                    /\ \A j \in 1..(k - 1) : ls[k][2] > ls[j][2]
                    /\ \A j \in 1..Len(ls) : ls[k][2] >= ls[j][2]
                    /\ out.mainLanguage = ls[k][1]

\* The agent's analysis carried success = false and two languages share the
\* largest code count; the stage has returned the first of them.
C30_Witness ==
    /\ wfResults["analyze-repository"] # Null
    /\ wfResults["analyze-repository"].summary = "analysis failed"
    /\ wfResults["analyze-repository"].success = TRUE
    /\ \E k \in 1..Len(AnalyzedEntries) : \E j \in (k + 1)..Len(AnalyzedEntries) :
          /\ AnalyzedEntries[j][2] = AnalyzedEntries[k][2]
          /\ \A i \in 1..Len(AnalyzedEntries) :
                AnalyzedEntries[i][2] <= AnalyzedEntries[k][2]
          /\ AnalyzedEntries[k][2] > 0
          /\ wfResults["analyze-repository"].mainLanguage = AnalyzedEntries[k][1]
====
